---- MODULE Spec2Model ----
(***************************************************************************)
(* Model of the science-bowl buzzer server (src/server/index.js): the room *)
(* registry, the per-room phase machine, the countdown timer, the buzz     *)
(* arbiter, the per-toss-up match log and the toss-up-end timeout.         *)
(*                                                                         *)
(* Strings that the server trims, slices or upper-cases (room codes and    *)
(* names) are sequences of one-character strings; socket ids and team ids  *)
(* are opaque strings.  Every socket handler is an operator On...(...)     *)
(* that maps the current state and the handler's inputs to the state the   *)
(* handler leaves behind plus the messages it emits; the actions apply     *)
(* these operators.  socket.io's own bookkeeping (which sockets joined     *)
(* which channel) is the transport's state and is not modelled; what the   *)
(* server emits, and to whom, is.                                          *)
(***************************************************************************)
EXTENDS Integers, Sequences, FiniteSets, TLC

VARIABLES
    rooms,      \* the registry `rooms`: live room code -> room object
    timeouts,   \* armed setTimeout callbacks of scheduleTossupEnd
    closed,     \* sockets that have disconnected (their ids are never reused)
    created,    \* how many rooms create_room has made so far
    hist,       \* history, per live room: the host's accepted start-tossup-reading
                \* commands, and the teams locked out since the last of them
    now         \* Date.now(), in ms

vars == <<rooms, timeouts, closed, created, hist, now>>

(* ------------------------------ bounds -------------------------------- *)
\* Four specifications share the actions and differ in what they explore:
\* Spec the players of one room, SpecLedger the scores and the match log,
\* SpecRegistry the registry (a second create_room, the callbacks of rooms
\* it replaced) and the clock, SpecBonus the scores and the match log over
\* the length of a bonus clock.

\* latest instant the clock is advanced to
MaxNow == 5015
LedgerMaxNow == 5015
BonusMaxNow == 20000
RegistryMaxNow == 5015
\* most rows a match log grows to
MaxRows == 1
LedgerMaxRows == 3
RegistryMaxRows == 1
\* cap on a team's running score
MaxScore == 4
LedgerMaxScore == 8
RegistryMaxScore == 0
\* most callbacks armed at once (live rooms' plus replaced rooms')
MaxTimeouts == 1
LedgerMaxTimeouts == 1
RegistryMaxTimeouts == 2
\* most rooms ever created
MaxCreates == 1
LedgerMaxCreates == 1
RegistryMaxCreates == 2

\* amounts of time that pass between two events
TickSteps == {5000, 5015}
LedgerTickSteps == {5015}
BonusTickSteps == {20000}
RegistryTickSteps == {2500, 2515}

Sockets == {"s1", "s2", "s3"}

(* --------------------------- program constants ------------------------ *)
DEFAULT_TOSSUP_SECONDS == 5
DEFAULT_BONUS_SECONDS == 20
\* safety margin added to the toss-up-end timeout
END_MARGIN_MS == 15
\* +4 for a correct toss-up and for the benefiting team of a wrong interrupt
TOSSUP_POINTS == 4
MAX_BONUS_POINTS == 20
MIN_TEAMS == 2
MAX_TEAMS == 8
ROOM_NAME_LEN == 40
NAME_LEN == 24
CODE_LEN == 6

Null == "null"
\* tossupEndTimeout: null (no handle)
NoHandle == 0

(* ------------------------------ strings ------------------------------- *)
Min(a, b) == IF a < b THEN a ELSE b
Max(a, b) == IF a > b THEN a ELSE b

\* String.prototype.slice(0, n)
Slice(s, n) == SubSeq(s, 1, Min(Len(s), n))

RECURSIVE TrimLeft(_)
TrimLeft(s) == IF s # <<>> /\ Head(s) = " " THEN TrimLeft(Tail(s)) ELSE s

RECURSIVE TrimRight(_)
TrimRight(s) ==
    IF s # <<>> /\ s[Len(s)] = " " THEN TrimRight(SubSeq(s, 1, Len(s) - 1)) ELSE s

\* String.prototype.trim()
Trim(s) == TrimRight(TrimLeft(s))

UpperChar(ch) ==
    CASE ch = "a" -> "A"
      [] ch = "b" -> "B"
      [] ch = "q" -> "Q"
      [] OTHER -> ch

\* String.prototype.toUpperCase()
ToUpperCase(s) == [i \in 1..Len(s) |-> UpperChar(s[i])]

\* code = String(code || "").toUpperCase().trim()
NormCode(code) == Trim(ToUpperCase(code))

\* the codes genCode draws here: six characters of its alphabet
CodeA == <<"A", "A", "A", "A", "A", "A">>
CodeB == <<"B", "B", "B", "B", "B", "B">>

\* a code no room has
CodeQ == <<"Q", "Q", "Q", "Q", "Q", "Q">>

\* room codes typed into the join screen: a live one as typed, a dead one
TypedCodeInputs == { <<" ", "a", "a", "a", "a", "a", "a">>, CodeQ }


\* names that clients send
HostNameInputs == { <<>> }
RoomNameInputs == { <<" ">> }
PlayerNameInputs == { <<>> }
TeamNameInputs == { <<" ">> }

TeamIds == <<"T1", "T2", "T3", "T4", "T5", "T6", "T7", "T8">>
Letters == <<"A", "B", "C", "D", "E", "F", "G", "H">>

\* Number(x) is NaN, or a finite number <<v>>
NaN == <<>>
IsFinite(n) == n # NaN

\* numTeams as sent by clients, as Number(numTeams), in tenths
NumTeamsInputs == { <<25>> }

\* bonus points as sent by clients, as Number(points)
PointsInputs == {NaN, <<-1>>, <<0>>, <<10>>, <<21>>}

\* What one specification explores: its bounds and the inputs of its commands.
\*   genCodes  the codes genCode returns
\*   creators  the sockets that send create_room
\*   joins     what joining clients send: socket, team id (a real one, an
\*             unknown one, none), spectate
\*   hostCmds  who sends the host's commands, and for which room code
\*   buzzes    who buzzes, and for which room code
\*   renames   the team ids that host_set_team_name is sent for
Core ==
    [sockets |-> Sockets,
     maxNow |-> MaxNow, maxRows |-> MaxRows, maxScore |-> MaxScore,
     maxTimeouts |-> MaxTimeouts, maxCreates |-> MaxCreates,
     steps |-> TickSteps,
     genCodes |-> {CodeA},
     creators |-> {"s1"},
     joins |-> { <<"s2", "T1", FALSE>>, <<"s3", "T1", FALSE>>, <<"s3", "T2", FALSE>>,
                 <<"s3", Null, TRUE>>, <<"s2", "T9", FALSE>>, <<"s2", Null, FALSE>> },
     hostCmds |-> { <<"s1", CodeA>>, <<"s2", CodeA>> },
     buzzes |-> { <<"s1", CodeA>>, <<"s2", CodeA>>, <<"s3", CodeA>> },
     numTeams |-> NumTeamsInputs, points |-> PointsInputs,
     hostNames |-> HostNameInputs, roomNames |-> RoomNameInputs,
     playerNames |-> PlayerNameInputs, teamNames |-> TeamNameInputs,
     renames |-> {"T1", "T9"}]

Ledger ==
    [Core EXCEPT
        !.maxNow = LedgerMaxNow, !.maxRows = LedgerMaxRows,
        !.maxScore = LedgerMaxScore, !.maxTimeouts = LedgerMaxTimeouts,
        !.maxCreates = LedgerMaxCreates, !.steps = LedgerTickSteps,
        !.sockets = {"s1", "s2"},
        !.joins = { <<"s2", "T1", FALSE>> },
        !.buzzes = { <<"s1", CodeA>>, <<"s2", CodeA>> },
        !.points = {NaN, <<0>>, <<3>>, <<21>>}]

Bonus == [Ledger EXCEPT !.maxNow = BonusMaxNow, !.steps = BonusTickSteps]

Registry ==
    [Core EXCEPT
        !.sockets = {"s1", "s2"},
        !.maxNow = RegistryMaxNow, !.maxRows = RegistryMaxRows,
        !.maxScore = RegistryMaxScore, !.maxTimeouts = RegistryMaxTimeouts,
        !.maxCreates = RegistryMaxCreates, !.steps = RegistryTickSteps,
        !.genCodes = {CodeA, CodeB},
        !.creators = {"s1", "s2"},
        !.joins = { <<"s2", "T1", FALSE>>, <<"s1", "T1", FALSE>> },
        !.buzzes = { <<"s1", CodeA>>, <<"s2", CodeA>> }]

Phases ==
    {"lobby", "tossup_reading", "tossup_live", "tossup_closed",
     "bonus_reading", "bonus_live"}

\* phase.startsWith("bonus")
IsBonus_ReadingOnly(phase) == phase = "bonus_reading"

IsBonus(phase) == phase \in {"bonus_reading", "bonus_live"}

(* ------------------------------ rooms --------------------------------- *)
HasRoom(code) == code \in DOMAIN rooms

\* Map.prototype.set on a function with a growing domain
MapSet(m, k, v) == [x \in DOMAIN m \cup {k} |-> IF x = k THEN v ELSE m[x]]

\* Map.prototype.delete
MapDelete(m, k) == [x \in DOMAIN m \ {k} |-> m[x]]

\* room.teams.keys(), in insertion order
TeamKeys(room) == [i \in 1..Len(room.teams) |-> room.teams[i].id]

\* room.teams.has(teamId)
HasTeam(room, teamId) == \E i \in 1..Len(room.teams) : room.teams[i].id = teamId

\* position of a team the room has
TeamIndex(room, teamId) == CHOOSE i \in 1..Len(room.teams) : room.teams[i].id = teamId

\* room.teams.get(teamId).score
TeamScore(room, teamId) == room.teams[TeamIndex(room, teamId)].score

\* team.score += points
AddScore_Overwrites(room, teamId, points) ==
    [room EXCEPT !.teams[TeamIndex(room, teamId)].score = points]

AddScore(room, teamId, points) ==
    [room EXCEPT !.teams[TeamIndex(room, teamId)].score = @ + points]

(* ------------------------------ timer --------------------------------- *)
computeTimerSnapshot(room) ==
    LET t == room.timer
        remaining == Max(0, t.endsAtMs - now)
        running == remaining > 0
    IN  IF ~t.running
        THEN [mode |-> t.mode, running |-> FALSE, remainingMs |-> t.remainingMs,
              endsAtMs |-> 0]
        ELSE [mode |-> t.mode, running |-> running, remainingMs |-> remaining,
              endsAtMs |-> IF running THEN t.endsAtMs ELSE 0]

setTimer(room, mode, seconds, running) ==
    LET ms == seconds * 1000
    IN  [room EXCEPT !.timer =
            IF running
            THEN [mode |-> mode, running |-> TRUE, remainingMs |-> ms,
                  endsAtMs |-> now + ms]
            ELSE [mode |-> mode, running |-> FALSE, remainingMs |-> ms,
                  endsAtMs |-> 0]]

resetTimerFull_TossupLength(room, mode, running) ==
    setTimer(room, mode, room.settings.tossupSeconds, running)

resetTimerFull(room, mode, running) ==
    LET seconds == IF mode = "tossup" THEN room.settings.tossupSeconds
                                      ELSE room.settings.bonusSeconds
    IN  setTimer(room, mode, seconds, running)

stopTimer_KeepsRemaining(room) ==
    IF ~room.timer.running THEN room
    ELSE [room EXCEPT !.timer.running = FALSE,
                      !.timer.endsAtMs = 0]

stopTimer_KeepsDeadline(room) ==
    IF ~room.timer.running THEN room
    ELSE [room EXCEPT !.timer.remainingMs = Max(0, room.timer.endsAtMs - now),
                      !.timer.running = FALSE]

stopTimer(room) ==
    IF ~room.timer.running THEN room
    ELSE [room EXCEPT !.timer.remainingMs = Max(0, room.timer.endsAtMs - now),
                      !.timer.running = FALSE,
                      !.timer.endsAtMs = 0]

(* ------------------------- toss-up end timeout ------------------------ *)
\* A room object and the armed callbacks, as the timeout helpers leave them.
RT(room, touts) == [room |-> room, touts |-> touts]

\* clearTimeout(handle): the callback with that handle, if still armed, is dropped
clearTimeout(touts, handle) == {t \in touts : t.handle # handle}

clearTossupEndTimeout_HandleOnly(room, touts) ==
    RT([room EXCEPT !.tossupEndTimeout = NoHandle], touts)

clearTossupEndTimeout(room, touts) ==
    IF room.tossupEndTimeout # NoHandle
    THEN RT([room EXCEPT !.tossupEndTimeout = NoHandle],
            clearTimeout(touts, room.tossupEndTimeout))
    ELSE RT(room, touts)

\* handles held by a live room or by an armed callback
UsedHandles(touts) ==
    {t.handle : t \in touts} \cup {rooms[c].tossupEndTimeout : c \in DOMAIN rooms}

\* setTimeout returns a handle no one holds
FreshHandle(touts) ==
    CHOOSE h \in 1..(Cardinality(UsedHandles(touts)) + 1) :
        /\ h \notin UsedHandles(touts)
        /\ \A g \in 1..(h - 1) : g \in UsedHandles(touts)

\* The callback closes over the room object; it reads room.code when it fires.
scheduleTossupEnd(room, touts) ==
    LET c == clearTossupEndTimeout(room, touts)
        ms == c.room.timer.remainingMs
        h == FreshHandle(c.touts)
    IN  RT([c.room EXCEPT !.tossupEndTimeout = h],
           c.touts \cup {[handle |-> h, code |-> room.code,
                          host |-> room.hostSocketId,
                          due |-> now + ms + END_MARGIN_MS]})

(* ------------------- match log (per toss-up deltas) ------------------- *)
startNewTossupRow_SameNumber(room) ==
    LET num == room.match.tossupNumber + 1
        teams == [id \in {room.teams[i].id : i \in 1..Len(room.teams)} |->
                    [p |-> 0, tu |-> 0, b |-> 0, score |-> TeamScore(room, id)]]
    IN  [room EXCEPT !.match.rows = Append(@, [num |-> num, teams |-> teams])]

startNewTossupRow(room) ==
    LET num == room.match.tossupNumber + 1
        teams == [id \in {room.teams[i].id : i \in 1..Len(room.teams)} |->
                    [p |-> 0, tu |-> 0, b |-> 0, score |-> TeamScore(room, id)]]
    IN  [room EXCEPT !.match.tossupNumber = num,
                     !.match.rows = Append(@, [num |-> num, teams |-> teams])]

\* index of currentRow(room), 0 for null
currentRow_First(room) == IF room.match.rows = <<>> THEN 0 ELSE 1

currentRow(room) == Len(room.match.rows)

addRowDelta(room, teamId, field, points) ==
    LET r == currentRow(room)
    IN  IF r = 0 THEN room
        ELSE IF teamId \notin DOMAIN room.match.rows[r].teams THEN room
        ELSE [room EXCEPT !.match.rows[r].teams[teamId][field] = @ + points]

refreshRowScores_Never(room) == room

refreshRowScores(room) ==
    LET r == currentRow(room)
    IN  IF r = 0 THEN room
        ELSE [room EXCEPT !.match.rows[r].teams =
                [id \in DOMAIN @ |->
                    IF HasTeam(room, id)
                    THEN [@[id] EXCEPT !.score = TeamScore(room, id)]
                    ELSE @[id]]]

(* ------------------------------ buzz ---------------------------------- *)
clearBuzz_KeepsLock(room) == room

clearBuzz(room) == [room EXCEPT !.buzz = [locked |-> FALSE]]

\* [...room.teams.keys()].find((id) => id !== teamId) || null
otherTeamId(room, teamId) ==
    LET ks == TeamKeys(room)
        hits == {i \in 1..Len(ks) : ks[i] # teamId}
    IN  IF hits = {} THEN Null
        ELSE ks[CHOOSE i \in hits : \A j \in hits : i <= j]

(* -------------------------- state + broadcast ------------------------- *)
publicState(room) ==
    [code |-> room.code,
     roomName |-> room.roomName,
     hostSocketId |-> room.hostSocketId,
     settings |-> room.settings,
     teams |-> room.teams,
     players |-> room.players,
     phase |-> room.phase,
     activeBonusTeamId |-> room.activeBonusTeamId,
     buzz |-> room.buzz,
     timer |-> computeTimerSnapshot(room),
     tossupLockedTeams |-> room.tossupLockedTeams,
     match |-> room.match]

\* io.to(room.code).emit("state", publicState(room))
broadcast(room) == [to |-> room.code, event |-> "state", data |-> publicState(room)]

\* socket.emit("error_msg", text)
errorMsg(socket, text) == [to |-> socket, event |-> "error_msg", data |-> text]

(* --------------------------- handler results -------------------------- *)
\* What a handler leaves behind: the registry, the armed callbacks, and the
\* messages it emitted, in order.
Result(rs, ts, out) == [rooms |-> rs, timeouts |-> ts, out |-> out]

\* a handler that returns before changing anything
Unchanged(out) == Result(rooms, timeouts, out)

\* the room was changed in place (and the callbacks with it), then broadcast
Updated_NoBroadcast(room, touts) ==
    Result(MapSet(rooms, room.code, room), touts, <<>>)

Updated_EveryRoom(room, touts) ==
    Result([c \in DOMAIN rooms |-> [room EXCEPT !.code = c]], touts,
           <<broadcast(room)>>)

Updated(room, touts) ==
    Result(MapSet(rooms, room.code, room), touts, <<broadcast(room)>>)

\* requireRoom's and requireHost's error notices
RoomNotFound(socket) == Unchanged(<<errorMsg(socket, "Room not found.")>>)
HostOnly(socket) == Unchanged(<<errorMsg(socket, "Host only.")>>)

\* requireHost(room, socket)
requireHost_Anyone(room, socket) == TRUE
requireHost(room, socket) == room.hostSocketId = socket

\* Math.round of a number of tenths
MathRound(tenths) == (tenths + 5) \div 10

\* teamCount of create_room
TeamCount_Truncating(numTeams) ==
    IF IsFinite(numTeams)
    THEN Min(MAX_TEAMS, Max(MIN_TEAMS, numTeams[1] \div 10))
    ELSE MIN_TEAMS

TeamCount(numTeams) ==
    IF IsFinite(numTeams)
    THEN Min(MAX_TEAMS, Max(MIN_TEAMS, MathRound(numTeams[1])))
    ELSE MIN_TEAMS

OrElse(s, dflt) == IF s = <<>> THEN dflt ELSE s

(* ------------------------------ handlers ------------------------------ *)
\* socket.on("create_room"); code is what genCode() returned
OnCreateRoom(socket, code, hostName, roomName, numTeams) ==
    LET rn == OrElse(Slice(Trim(roomName), ROOM_NAME_LEN),
                     <<"R", "o", "o", "m", " ">> \o code)
        teamCount == TeamCount(numTeams)
        room ==
            [code |-> code,
             roomName |-> rn,
             hostSocketId |-> socket,
             settings |-> [tossupSeconds |-> DEFAULT_TOSSUP_SECONDS,
                           bonusSeconds |-> DEFAULT_BONUS_SECONDS],
             teams |-> [i \in 1..teamCount |->
                          [id |-> TeamIds[i],
                           name |-> <<"T", "e", "a", "m", " ", Letters[i]>>,
                           score |-> 0]],
             players |-> (socket :> [socketId |-> socket,
                                     name |-> Slice(OrElse(Trim(hostName),
                                                           <<"H", "o", "s", "t">>),
                                                    NAME_LEN),
                                     teamId |-> Null,
                                     isHost |-> TRUE,
                                     isSpectator |-> FALSE]),
             phase |-> "lobby",
             activeBonusTeamId |-> Null,
             tossupLockedTeams |-> {},
             buzz |-> [locked |-> FALSE],
             timer |-> [mode |-> "tossup", running |-> FALSE,
                        remainingMs |-> DEFAULT_TOSSUP_SECONDS * 1000,
                        endsAtMs |-> 0],
             tossupEndTimeout |-> NoHandle,
             match |-> [tossupNumber |-> 0, rows |-> <<>>]]
    IN  Result(MapSet(rooms, code, room), timeouts,
               <<[to |-> socket, event |-> "room_created", data |-> code],
                 broadcast(room)>>)

\* socket.on("host_set_room_name")
OnHostSetRoomName(socket, codeIn, roomName) ==
    LET code == NormCode(codeIn)
        rn == Slice(Trim(roomName), ROOM_NAME_LEN)
    IN  IF ~HasRoom(code) THEN RoomNotFound(socket)
        ELSE IF ~requireHost(rooms[code], socket) THEN HostOnly(socket)
        ELSE IF rn = <<>> THEN Unchanged(<<>>)
        ELSE Updated([rooms[code] EXCEPT !.roomName = rn], timeouts)

\* socket.on("host_set_team_name")
OnHostSetTeamName(socket, codeIn, teamId, name) ==
    LET code == NormCode(codeIn)
        nm == Slice(Trim(name), NAME_LEN)
    IN  IF ~HasRoom(code) THEN RoomNotFound(socket)
        ELSE IF ~requireHost(rooms[code], socket) THEN HostOnly(socket)
        ELSE IF ~HasTeam(rooms[code], teamId) THEN Unchanged(<<>>)
        ELSE IF nm = <<>> THEN Unchanged(<<>>)
        ELSE Updated([rooms[code] EXCEPT
                        !.teams[TeamIndex(rooms[code], teamId)].name = nm],
                     timeouts)

\* socket.on("join_room")
OnJoinRoom(socket, codeIn, name, teamId, spectate) ==
    LET code == NormCode(codeIn)
        nm == Slice(OrElse(Trim(OrElse(name, <<"P", "l", "a", "y", "e", "r">>)),
                           <<"P", "l", "a", "y", "e", "r">>),
                    NAME_LEN)
        WithPlayer(p) ==
            LET room == [rooms[code] EXCEPT !.players = MapSet(@, socket, p)]
            IN  Result(MapSet(rooms, code, room), timeouts, <<broadcast(room)>>)
    IN  IF ~HasRoom(code) THEN RoomNotFound(socket)
        ELSE IF spectate
        THEN WithPlayer([socketId |-> socket, name |-> nm, teamId |-> Null,
                         isHost |-> FALSE, isSpectator |-> TRUE])
        ELSE IF teamId = Null \/ ~HasTeam(rooms[code], teamId)
        THEN Unchanged(<<errorMsg(socket, "Choose a team before joining.")>>)
        ELSE WithPlayer([socketId |-> socket, name |-> nm, teamId |-> teamId,
                         isHost |-> FALSE, isSpectator |-> FALSE])

\* socket.on("set_team"): no switching after join
OnSetTeam(socket) == Unchanged(<<>>)

\* emit("host_delete_tossup_row", { code, num }): the connection handler
\* registers no listener for the event, so the server drops it
OnHostDeleteTossupRow(socket, codeIn, num) == Unchanged(<<>>)

\* socket.on("host_start_tossup_reading")
OnHostStartTossupReading(socket, codeIn) ==
    LET code == NormCode(codeIn)
    IN  IF ~HasRoom(code) THEN RoomNotFound(socket)
        ELSE IF ~requireHost(rooms[code], socket) THEN HostOnly(socket)
        ELSE IF IsBonus(rooms[code].phase) THEN Unchanged(<<>>)
        ELSE
            LET c == clearTossupEndTimeout(rooms[code], timeouts)
                r1 == [c.room EXCEPT !.phase = "tossup_reading",
                                     !.activeBonusTeamId = Null,
                                     !.tossupLockedTeams = {}]
                r2 == resetTimerFull(clearBuzz(r1), "tossup", FALSE)
                r3 == refreshRowScores(startNewTossupRow(r2))
            IN  Updated(r3, c.touts)

\* socket.on("host_done_reading_tossup")
OnHostDoneReadingTossup(socket, codeIn) ==
    LET code == NormCode(codeIn)
    IN  IF ~HasRoom(code) THEN RoomNotFound(socket)
        ELSE IF ~requireHost(rooms[code], socket) THEN HostOnly(socket)
        ELSE IF IsBonus(rooms[code].phase) THEN Unchanged(<<>>)
        ELSE
            LET r1 == [rooms[code] EXCEPT !.phase = "tossup_live"]
                r2 == resetTimerFull(clearBuzz(r1), "tossup", TRUE)
                s == scheduleTossupEnd(r2, timeouts)
            IN  Updated(s.room, s.touts)

\* if (room.tossupLockedTeams.has(p.teamId)) return;
TeamLockedOut_Never(room, teamId) == FALSE
TeamLockedOut(room, teamId) == teamId \in room.tossupLockedTeams

\* if (room.buzz.locked) return;
BuzzAlreadyLocked_Never(room) == FALSE
BuzzAlreadyLocked(room) == room.buzz.locked

\* socket.on("buzz")
OnBuzz(socket, codeIn) ==
    LET code == NormCode(codeIn)
    IN  IF ~HasRoom(code) THEN RoomNotFound(socket)
        ELSE
            LET room == rooms[code]
            IN  IF socket \notin DOMAIN room.players THEN Unchanged(<<>>)
                ELSE
                LET p == room.players[socket]
                IN  IF p.isHost \/ p.isSpectator THEN Unchanged(<<>>)
                    ELSE IF room.phase # "tossup_reading" /\ room.phase # "tossup_live"
                    THEN Unchanged(<<>>)
                    ELSE IF p.teamId = Null THEN Unchanged(<<>>)
                    ELSE IF TeamLockedOut(room, p.teamId) THEN Unchanged(<<>>)
                    ELSE IF BuzzAlreadyLocked(room) THEN Unchanged(<<>>)
                    ELSE
                    LET c == IF room.phase = "tossup_live"
                             THEN clearTossupEndTimeout(stopTimer(room), timeouts)
                             ELSE RT(room, timeouts)
                        r1 == [c.room EXCEPT !.buzz =
                                 [locked |-> TRUE,
                                  winnerSocketId |-> socket,
                                  winnerName |-> p.name,
                                  winnerTeamId |-> p.teamId,
                                  at |-> now,
                                  interruptChoice |-> Null]]
                    IN  Updated(r1, c.touts)

\* socket.on("host_clear_buzz")
OnHostClearBuzz(socket, codeIn) ==
    LET code == NormCode(codeIn)
    IN  IF ~HasRoom(code) THEN RoomNotFound(socket)
        ELSE IF ~requireHost(rooms[code], socket) THEN HostOnly(socket)
        ELSE
            LET r1 == clearBuzz(rooms[code])
                s == IF r1.phase = "tossup_live" /\ r1.timer.running
                     THEN scheduleTossupEnd(r1, timeouts)
                     ELSE RT(r1, timeouts)
            IN  Updated(s.room, s.touts)

\* socket.on("host_set_interrupt_choice"); interrupt is !!interrupt, "true" or "false"
OnHostSetInterruptChoice(socket, codeIn, interrupt) ==
    LET code == NormCode(codeIn)
    IN  IF ~HasRoom(code) THEN RoomNotFound(socket)
        ELSE IF ~requireHost(rooms[code], socket) THEN HostOnly(socket)
        ELSE IF ~rooms[code].buzz.locked THEN Unchanged(<<>>)
        ELSE Updated([rooms[code] EXCEPT !.buzz.interruptChoice = interrupt], timeouts)

\* the correct branch of host_mark_answer
MarkCorrect(room, teamId) ==
    LET r1 == refreshRowScores(
                  addRowDelta(AddScore(room, teamId, TOSSUP_POINTS),
                              teamId, "tu", TOSSUP_POINTS))
        c == clearTossupEndTimeout(r1, timeouts)
        r2 == [c.room EXCEPT !.phase = "bonus_reading",
                             !.activeBonusTeamId = teamId]
        r3 == resetTimerFull(clearBuzz(r2), "bonus", FALSE)
    IN  Updated(r3, c.touts)

\* the incorrect branches of host_mark_answer
MarkIncorrect(room, teamId, interrupt) ==
    LET r1 == clearBuzz([room EXCEPT !.tossupLockedTeams = @ \cup {teamId}])
    IN  IF interrupt = "true"
        THEN
            LET otherId == otherTeamId(r1, teamId)
                r2 == IF otherId # Null /\ HasTeam(r1, otherId)
                      THEN refreshRowScores(
                               addRowDelta(AddScore(r1, otherId, TOSSUP_POINTS),
                                           otherId, "p", TOSSUP_POINTS))
                      ELSE r1
                c == clearTossupEndTimeout(r2, timeouts)
                r3 == resetTimerFull([c.room EXCEPT !.phase = "tossup_reading"],
                                     "tossup", FALSE)
            IN  Updated(r3, c.touts)
        ELSE
            LET r2 == resetTimerFull([r1 EXCEPT !.phase = "tossup_live"],
                                     "tossup", TRUE)
                s == scheduleTossupEnd(r2, timeouts)
            IN  Updated(s.room, s.touts)

\* if (interrupt === null) return;
InterruptUnset_Never(room) == FALSE

InterruptUnset(room) == room.buzz.interruptChoice = Null

\* socket.on("host_mark_answer")
OnHostMarkAnswer(socket, codeIn, correct) ==
    LET code == NormCode(codeIn)
    IN  IF ~HasRoom(code) THEN RoomNotFound(socket)
        ELSE IF ~requireHost(rooms[code], socket) THEN HostOnly(socket)
        ELSE IF ~rooms[code].buzz.locked THEN Unchanged(<<>>)
        ELSE
            LET room == rooms[code]
                teamId == room.buzz.winnerTeamId
            IN  IF teamId = Null \/ ~HasTeam(room, teamId) THEN Unchanged(<<>>)
                ELSE IF InterruptUnset(room) THEN Unchanged(<<>>)
                ELSE IF correct THEN MarkCorrect(room, teamId)
                ELSE MarkIncorrect(room, teamId, room.buzz.interruptChoice)

\* socket.on("host_done_reading_bonus")
OnHostDoneReadingBonus(socket, codeIn) ==
    LET code == NormCode(codeIn)
    IN  IF ~HasRoom(code) THEN RoomNotFound(socket)
        ELSE IF ~requireHost(rooms[code], socket) THEN HostOnly(socket)
        ELSE IF ~IsBonus(rooms[code].phase) THEN Unchanged(<<>>)
        ELSE Updated(resetTimerFull([rooms[code] EXCEPT !.phase = "bonus_live"],
                                    "bonus", TRUE),
                     timeouts)

\* the tail shared by host_award_bonus and host_skip_bonus
BackToLobby_KeepsLockouts(room) ==
    resetTimerFull(clearBuzz([room EXCEPT !.phase = "lobby",
                                          !.activeBonusTeamId = Null]),
                   "tossup", FALSE)

BackToLobby_KeepsBonusTeam(room) ==
    resetTimerFull(clearBuzz([room EXCEPT !.phase = "lobby",
                                          !.tossupLockedTeams = {}]),
                   "tossup", FALSE)

BackToLobby(room) ==
    resetTimerFull(clearBuzz([room EXCEPT !.phase = "lobby",
                                          !.activeBonusTeamId = Null,
                                          !.tossupLockedTeams = {}]),
                   "tossup", FALSE)


\* Number.isFinite(p) && p >= 0 && p <= 20
ValidPoints_AnyNumber(points) == IsFinite(points)

ValidPoints(points) ==
    /\ IsFinite(points)
    /\ points[1] >= 0
    /\ points[1] <= MAX_BONUS_POINTS

\* socket.on("host_award_bonus"); points is Number(points)
OnHostAwardBonus(socket, codeIn, points) ==
    LET code == NormCode(codeIn)
    IN  IF ~HasRoom(code) THEN RoomNotFound(socket)
        ELSE IF ~requireHost(rooms[code], socket) THEN HostOnly(socket)
        ELSE IF ~IsBonus(rooms[code].phase) THEN Unchanged(<<>>)
        ELSE
            LET room == rooms[code]
                teamId == room.activeBonusTeamId
            IN  IF teamId = Null \/ ~HasTeam(room, teamId) THEN Unchanged(<<>>)
                ELSE IF ~ValidPoints(points) THEN Unchanged(<<>>)
                ELSE Updated(BackToLobby(refreshRowScores(
                                 addRowDelta(AddScore(room, teamId, points[1]),
                                             teamId, "b", points[1]))),
                             timeouts)

\* socket.on("host_skip_bonus")
OnHostSkipBonus(socket, codeIn) ==
    LET code == NormCode(codeIn)
    IN  IF ~HasRoom(code) THEN RoomNotFound(socket)
        ELSE IF ~requireHost(rooms[code], socket) THEN HostOnly(socket)
        ELSE IF ~IsBonus(rooms[code].phase) THEN Unchanged(<<>>)
        ELSE Updated(BackToLobby(rooms[code]), timeouts)

\* one room's share of socket.on("disconnect")
DisconnectFrom(res, socket, code) ==
    LET room == res.rooms[code]
    IN  IF socket \notin DOMAIN room.players THEN res
        ELSE
            LET wasHost == room.hostSocketId = socket
                r1 == [room EXCEPT !.players = MapDelete(@, socket)]
            IN  IF wasHost
                THEN Result(MapDelete(res.rooms, code),
                            clearTossupEndTimeout(r1, res.timeouts).touts,
                            Append(res.out,
                                   [to |-> code, event |-> "error_msg",
                                    data |-> "Host disconnected. Room closed."]))
                ELSE Result(MapSet(res.rooms, code, r1), res.timeouts,
                            Append(res.out, broadcast(r1)))

RECURSIVE DisconnectLoop(_, _, _)
DisconnectLoop(res, socket, codes) ==
    IF codes = {} THEN res
    ELSE LET code == CHOOSE c \in codes : TRUE
         IN  DisconnectLoop(DisconnectFrom(res, socket, code), socket, codes \ {code})

\* socket.on("disconnect")
OnDisconnect(socket) == DisconnectLoop(Unchanged(<<>>), socket, DOMAIN rooms)


\* the callback's test of the room as it is now:
\* r.phase === "tossup_live" && remaining === 0 && !r.buzz.locked
TossupEnded_IgnoringBuzz(r) ==
    r.phase = "tossup_live" /\ Max(0, r.timer.endsAtMs - now) = 0

TossupEnded_IgnoringRemaining(r) ==
    r.phase = "tossup_live" /\ ~r.buzz.locked

TossupEnded(r) ==
    /\ r.phase = "tossup_live"
    /\ Max(0, r.timer.endsAtMs - now) = 0
    /\ ~r.buzz.locked

\* the callback armed by scheduleTossupEnd, firing
OnTossupEndTimeout(t) ==
    LET touts == timeouts \ {t}
    IN  IF ~HasRoom(t.code) THEN Result(rooms, touts, <<>>)
        ELSE
            LET r == rooms[t.code]
            IN  IF TossupEnded(r)
                THEN
                    LET r1 == clearBuzz([r EXCEPT !.phase = "tossup_closed",
                                                  !.timer.running = FALSE,
                                                  !.timer.remainingMs = 0,
                                                  !.timer.endsAtMs = 0])
                    IN  Result(MapSet(rooms, t.code, r1), touts, <<broadcast(r1)>>)
                ELSE Result(rooms, touts, <<>>)

(* ------------------------------ actions ------------------------------- *)
\* connected sockets
Open == Sockets \ closed

\* the bounds of L, as a guard on what a step leaves behind
WithinBounds(L, res) ==
    /\ Cardinality(res.timeouts) <= L.maxTimeouts
    /\ \A c \in DOMAIN res.rooms :
          /\ Len(res.rooms[c].match.rows) <= L.maxRows
          /\ \A i \in 1..Len(res.rooms[c].teams) :
                res.rooms[c].teams[i].score <= L.maxScore

\* the history of a room just created
NoHistory == [starts |-> 0, lockedOut |-> {}]

\* The history after a step that leaves res behind: it follows the rooms that
\* stay, and records the teams the step added to tossupLockedTeams.
Carry(res) ==
    [c \in DOMAIN res.rooms |->
        IF c \in DOMAIN rooms
        THEN [hist[c] EXCEPT !.lockedOut =
                 @ \cup (res.rooms[c].tossupLockedTeams \ rooms[c].tossupLockedTeams)]
        ELSE NoHistory]

Apply(L, res) ==
    /\ WithinBounds(L, res)
    /\ rooms' = res.rooms
    /\ timeouts' = res.timeouts
    /\ hist' = Carry(res)
    /\ UNCHANGED <<closed, created, now>>

\* the server has started: no room, no callback, no socket gone
Init ==
    /\ rooms = <<>>
    /\ timeouts = {}
    /\ closed = {}
    /\ created = 0
    /\ hist = <<>>
    /\ now = 0

\* time passes
Tick(L) ==
    \E d \in L.steps :
        /\ now + d <= L.maxNow
        /\ now' = now + d
        /\ UNCHANGED <<rooms, timeouts, closed, created, hist>>

CreateRoom(L) ==
    \E s \in Open \cap L.creators, code \in L.genCodes, hn \in L.hostNames,
       rn \in L.roomNames, n \in L.numTeams :
        LET res == OnCreateRoom(s, code, hn, rn, n)
        IN  /\ created < L.maxCreates
            /\ WithinBounds(L, res)
            /\ rooms' = res.rooms
            /\ timeouts' = res.timeouts
            /\ created' = created + 1
            /\ hist' = MapSet(hist, code, NoHistory)
            /\ UNCHANGED <<closed, now>>

HostSetRoomName(L) ==
    \E h \in L.hostCmds, rn \in L.roomNames :
        /\ h[1] \in Open
        /\ Apply(L, OnHostSetRoomName(h[1], h[2], rn))

HostSetTeamName(L) ==
    \E h \in L.hostCmds, t \in L.renames, nm \in L.teamNames :
        /\ h[1] \in Open
        /\ Apply(L, OnHostSetTeamName(h[1], h[2], t, nm))

JoinRoom(L) ==
    \E j \in L.joins, c \in TypedCodeInputs, nm \in L.playerNames :
        /\ j[1] \in Open
        /\ Apply(L, OnJoinRoom(j[1], c, nm, j[2], j[3]))

SetTeam(L) == \E s \in Open \cap L.sockets : Apply(L, OnSetTeam(s))

HostDeleteTossupRow(L) ==
    \E h \in L.hostCmds, num \in 1..L.maxRows :
        /\ h[1] \in Open
        /\ Apply(L, OnHostDeleteTossupRow(h[1], h[2], num))

\* The history counts the command as accepted when the room's host sends it
\* outside a bonus phase; the lock-outs start afresh.
HostStartTossupReading(L) ==
    \E h \in L.hostCmds :
        LET res == OnHostStartTossupReading(h[1], h[2])
            code == NormCode(h[2])
            accepted == /\ HasRoom(code)
                        /\ rooms[code].hostSocketId = h[1]
                        /\ ~IsBonus(rooms[code].phase)
        IN  /\ h[1] \in Open
            /\ WithinBounds(L, res)
            /\ rooms' = res.rooms
            /\ timeouts' = res.timeouts
            /\ hist' = IF accepted
                       THEN [Carry(res) EXCEPT ![code] =
                                [starts |-> hist[code].starts + 1, lockedOut |-> {}]]
                       ELSE Carry(res)
            /\ UNCHANGED <<closed, created, now>>

HostDoneReadingTossup(L) ==
    \E h \in L.hostCmds :
        /\ h[1] \in Open
        /\ Apply(L, OnHostDoneReadingTossup(h[1], h[2]))

Buzz(L) ==
    \E b \in L.buzzes :
        /\ b[1] \in Open
        /\ Apply(L, OnBuzz(b[1], b[2]))

HostClearBuzz(L) ==
    \E h \in L.hostCmds :
        /\ h[1] \in Open
        /\ Apply(L, OnHostClearBuzz(h[1], h[2]))

HostSetInterruptChoice(L) ==
    \E h \in L.hostCmds, i \in {"true", "false"} :
        /\ h[1] \in Open
        /\ Apply(L, OnHostSetInterruptChoice(h[1], h[2], i))

HostMarkAnswer(L) ==
    \E h \in L.hostCmds, correct \in BOOLEAN :
        /\ h[1] \in Open
        /\ Apply(L, OnHostMarkAnswer(h[1], h[2], correct))

HostDoneReadingBonus(L) ==
    \E h \in L.hostCmds :
        /\ h[1] \in Open
        /\ Apply(L, OnHostDoneReadingBonus(h[1], h[2]))

HostAwardBonus(L) ==
    \E h \in L.hostCmds, pts \in L.points :
        /\ h[1] \in Open
        /\ Apply(L, OnHostAwardBonus(h[1], h[2], pts))

HostSkipBonus(L) ==
    \E h \in L.hostCmds :
        /\ h[1] \in Open
        /\ Apply(L, OnHostSkipBonus(h[1], h[2]))

Disconnect(L) ==
    \E s \in Open \cap L.sockets :
        LET res == OnDisconnect(s)
        IN  /\ rooms' = res.rooms
            /\ timeouts' = res.timeouts
            /\ closed' = closed \cup {s}
            /\ hist' = Carry(res)
            /\ UNCHANGED <<created, now>>

\* an armed callback whose delay has elapsed runs
TossupEndTimeout(L) ==
    \E t \in timeouts :
        /\ now >= t.due
        /\ Apply(L, OnTossupEndTimeout(t))

NextIn(L) ==
    \/ Tick(L)
    \/ CreateRoom(L)
    \/ HostSetRoomName(L)
    \/ HostSetTeamName(L)
    \/ JoinRoom(L)
    \/ SetTeam(L)
    \/ HostDeleteTossupRow(L)
    \/ HostStartTossupReading(L)
    \/ HostDoneReadingTossup(L)
    \/ Buzz(L)
    \/ HostClearBuzz(L)
    \/ HostSetInterruptChoice(L)
    \/ HostMarkAnswer(L)
    \/ HostDoneReadingBonus(L)
    \/ HostAwardBonus(L)
    \/ HostSkipBonus(L)
    \/ Disconnect(L)
    \/ TossupEndTimeout(L)

Next == NextIn(Core)
Spec == Init /\ [][Next]_vars

NextLedger == NextIn(Ledger)
SpecLedger == Init /\ [][NextLedger]_vars

NextBonus == NextIn(Bonus)
SpecBonus == Init /\ [][NextBonus]_vars

NextRegistry == NextIn(Registry)
SpecRegistry == Init /\ [][NextRegistry]_vars

(* ============================ properties ============================== *)
\* a handler result that changed no room and no callback and sent no snapshot
NoEffect(res) ==
    LET r == res
    IN  /\ r.rooms = rooms
        /\ r.timeouts = timeouts
        /\ \A i \in 1..Len(r.out) : r.out[i].event # "state"

\* the sockets that could win the buzz of room c if it were not locked
CouldBuzz(c, s) ==
    /\ s \in DOMAIN rooms[c].players
    /\ ~rooms[c].players[s].isHost
    /\ ~rooms[c].players[s].isSpectator
    /\ rooms[c].players[s].teamId # Null
    /\ rooms[c].players[s].teamId \notin rooms[c].tossupLockedTeams
    /\ rooms[c].phase \in {"tossup_reading", "tossup_live"}

\* C1: while the buzz of a room is locked, a buzz attempt of any socket is
\* rejected: it leaves the winner (socket, name, team, timestamp, interrupt
\* choice), the rest of the room and the callbacks as they are and sends no
\* snapshot; and a buzz attempt that is accepted finds the buzz unlocked and
\* locks it to the buzzing socket.
C1_AtMostOneWinner ==
    \A code \in TypedCodeInputs, s \in Sockets :
        LET c == NormCode(code)
            res == OnBuzz(s, code)
        IN  HasRoom(c) =>
              /\ rooms[c].buzz.locked => NoEffect(res)
              /\ res.rooms # rooms =>
                    /\ ~rooms[c].buzz.locked
                    /\ res.rooms[c].buzz.locked
                    /\ res.rooms[c].buzz.winnerSocketId = s
                    /\ res.rooms[c].buzz.at = now
                    /\ res.rooms[c].buzz.interruptChoice = Null

\* C1 witness: the buzz is locked and a player of another team, not locked out,
\* could otherwise buzz
C1_Witness ==
    \E c \in DOMAIN rooms, s \in Sockets :
        /\ rooms[c].buzz.locked
        /\ s # rooms[c].buzz.winnerSocketId
        /\ CouldBuzz(c, s)
        /\ rooms[c].players[s].teamId # rooms[c].buzz.winnerTeamId

LosesLockout(c) ==
    /\ c \in DOMAIN rooms'
    /\ created' = created
    /\ ~(rooms[c].tossupLockedTeams \subseteq rooms'[c].tossupLockedTeams)

C3_EndCallbackIdempotent ==
    /\ \A t \in timeouts :
          (now >= t.due /\ HasRoom(t.code) /\ rooms[t.code].buzz.locked) =>
              LET res == OnTossupEndTimeout(t)
              IN  res.rooms = rooms /\ res.out = <<>>
    /\ \A c \in DOMAIN rooms :
          (rooms[c].buzz.locked /\ rooms[c].phase = "tossup_live") =>
              /\ rooms[c].tossupEndTimeout = NoHandle
              /\ ~rooms[c].timer.running

\* C3 witness: the buzz was locked in tossup_live with no time left, and a
\* callback on the room is due
C3_Witness ==
    \E t \in timeouts :
        /\ now >= t.due
        /\ HasRoom(t.code)
        /\ rooms[t.code].phase = "tossup_live"
        /\ rooms[t.code].buzz.locked
        /\ rooms[t.code].timer.remainingMs = 0

\* the room c is in tossup_closed after the step and was not before it
EntersClosed(c) ==
    /\ rooms'[c].phase = "tossup_closed"
    /\ c \in DOMAIN rooms => rooms[c].phase # "tossup_closed"

\* C4: a room enters tossup_closed only in a step that runs a due callback on
\* its code, from a room that is in the registry, in tossup_live, with no time
\* remaining and no buzz locked, and after the step its timer is stopped with
\* remainingMs = 0 and its buzz is cleared; in every state where the room is
\* not so, a callback that runs changes no room and sends no snapshot.
C4_ClosedOnlyByCallback ==
    /\ [][\A c \in DOMAIN rooms' :
            EntersClosed(c) =>
              /\ c \in DOMAIN rooms
              /\ rooms[c].phase = "tossup_live"
              /\ computeTimerSnapshot(rooms[c]).remainingMs = 0
              /\ ~rooms[c].buzz.locked
              /\ \E t \in timeouts :
                    /\ t.code = c
                    /\ now >= t.due
                    /\ timeouts' = timeouts \ {t}
              /\ ~rooms'[c].timer.running
              /\ rooms'[c].timer.remainingMs = 0
              /\ rooms'[c].buzz = [locked |-> FALSE]]_vars
    /\ [](\A t \in timeouts :
            LET res == OnTossupEndTimeout(t)
            IN  ( /\ now >= t.due
                  /\ ~( /\ HasRoom(t.code)
                        /\ rooms[t.code].phase = "tossup_live"
                        /\ computeTimerSnapshot(rooms[t.code]).remainingMs = 0
                        /\ ~rooms[t.code].buzz.locked ) )
                => res.rooms = rooms /\ res.out = <<>>)

\* C4 witness: a room is in tossup_closed
C4_Witness == \E c \in DOMAIN rooms : rooms[c].phase = "tossup_closed"

\* names that are empty once trimmed, and one that is not
BlankNames == { <<>>, <<" ">> }
NameProbes == BlankNames \cup { <<" ", "X">> }

\* team ids a command is sent with: teams of every room, a team of no room, none
TeamIdProbes == {"T1", "T9", Null}

\* C5: for every room and every socket that is not the room's hostSocketId,
\* each host-only command sent by that socket with the room's code, whatever
\* its arguments, changes no room (phase, buzz, timer, lock-outs, scores,
\* ledger, players) and no pending callback, and sends no snapshot.
C5_HostOnly ==
    \A code \in TypedCodeInputs, s \in Sockets :
        LET c == NormCode(code)
        IN  (HasRoom(c) /\ rooms[c].hostSocketId # s) =>
              /\ \A nm \in NameProbes : NoEffect(OnHostSetRoomName(s, code, nm))
              /\ \A nm \in NameProbes, t \in TeamIdProbes :
                    NoEffect(OnHostSetTeamName(s, code, t, nm))
              /\ NoEffect(OnHostStartTossupReading(s, code))
              /\ NoEffect(OnHostDoneReadingTossup(s, code))
              /\ NoEffect(OnHostClearBuzz(s, code))
              /\ \A i \in {"true", "false"} :
                    NoEffect(OnHostSetInterruptChoice(s, code, i))
              /\ \A correct \in BOOLEAN : NoEffect(OnHostMarkAnswer(s, code, correct))
              /\ NoEffect(OnHostDoneReadingBonus(s, code))
              /\ \A pts \in PointsInputs : NoEffect(OnHostAwardBonus(s, code, pts))
              /\ NoEffect(OnHostSkipBonus(s, code))

\* C5 witness: a player who is not the host is in a room whose locked buzz is
\* classified, so that the host's mark-answer would be accepted
C5_Witness ==
    \E c \in DOMAIN rooms, s \in Open :
        /\ s \in DOMAIN rooms[c].players
        /\ s # rooms[c].hostSocketId
        /\ rooms[c].hostSocketId \in Open
        /\ rooms[c].buzz.locked
        /\ rooms[c].buzz.interruptChoice # Null

\* every command sent by socket s with a code that no room has
UnknownCodeRejected(s, code) ==
    /\ NoEffect(OnHostSetRoomName(s, code, <<" ", "X">>))
    /\ NoEffect(OnHostSetTeamName(s, code, "T1", <<" ", "X">>))
    /\ \A spectate \in BOOLEAN :
          NoEffect(OnJoinRoom(s, code, <<" ", "X">>, "T1", spectate))
    /\ NoEffect(OnHostStartTossupReading(s, code))
    /\ NoEffect(OnHostDoneReadingTossup(s, code))
    /\ NoEffect(OnBuzz(s, code))
    /\ NoEffect(OnHostClearBuzz(s, code))
    /\ NoEffect(OnHostSetInterruptChoice(s, code, "true"))
    /\ \A correct \in BOOLEAN : NoEffect(OnHostMarkAnswer(s, code, correct))
    /\ NoEffect(OnHostDoneReadingBonus(s, code))
    /\ NoEffect(OnHostAwardBonus(s, code, <<10>>))
    /\ NoEffect(OnHostSkipBonus(s, code))

\* points that award-bonus does not take: no number, or one outside 0..20
InvalidPoints(pts) == pts = NaN \/ pts[1] < 0 \/ pts[1] > 20

\* Commands sent by socket s with the code of a room that the phase of the
\* room rules out, or whose input is not valid (points, an empty name, a join
\* that names no team of the room).
InRoomRejected(s, code) ==
    LET c == NormCode(code)
        bonus == IsBonus(rooms[c].phase)
    IN  /\ bonus => NoEffect(OnHostStartTossupReading(s, code))
        /\ bonus => NoEffect(OnHostDoneReadingTossup(s, code))
        /\ ~bonus => NoEffect(OnHostDoneReadingBonus(s, code))
        /\ ~bonus => NoEffect(OnHostSkipBonus(s, code))
        /\ \A pts \in PointsInputs :
              (~bonus \/ InvalidPoints(pts)) => NoEffect(OnHostAwardBonus(s, code, pts))
        /\ \A nm \in BlankNames : NoEffect(OnHostSetRoomName(s, code, nm))
        /\ \A nm \in NameProbes, t \in TeamIdProbes :
              (nm \in BlankNames \/ ~HasTeam(rooms[c], t)) =>
                  NoEffect(OnHostSetTeamName(s, code, t, nm))
        /\ \A t \in TeamIdProbes :
              (t = Null \/ ~HasTeam(rooms[c], t)) =>
                  NoEffect(OnJoinRoom(s, code, <<" ", "X">>, t, FALSE))

C7_CreateNeverCollides ==
    [][created' = created + 1 =>
          \A c \in DOMAIN rooms : c \in DOMAIN rooms' /\ rooms'[c] = rooms[c]]_vars

\* the step in which socket s disconnects
Disconnects(s) == s \notin closed /\ s \in closed'

\* C8 as stated: the step in which a room's host disconnects removes the room
\* from the registry and leaves no callback of that host's rooms armed; no
\* callback armed for a room of a host that has disconnected is ever left to
\* fire; and the step in which another socket disconnects changes of a room
\* only its players, by removing that socket's entry.
C8_HostDisconnectTearsDown ==
    /\ [][\A s \in Sockets : Disconnects(s) =>
            \A c \in DOMAIN rooms :
                IF rooms[c].hostSocketId = s
                THEN /\ c \notin DOMAIN rooms'
                     /\ \A t \in timeouts' : t.handle # rooms[c].tossupEndTimeout
                ELSE /\ c \in DOMAIN rooms'
                     /\ rooms'[c] = [rooms[c] EXCEPT !.players = MapDelete(@, s)]]_vars
    /\ [](\A t \in timeouts : t.host \notin closed)

\* C9: the match log of a room has as many rows as start-tossup-reading
\* commands were accepted in the room, and its i-th row has num = i.
C9_RowsCountStarts ==
    \A c \in DOMAIN rooms :
        /\ Len(rooms[c].match.rows) = hist[c].starts
        /\ \A i \in 1..Len(rooms[c].match.rows) : rooms[c].match.rows[i].num = i

\* C9 witness: a second toss-up was started after a toss-up and a bonus were
\* played
C9_Witness ==
    \E c \in DOMAIN rooms :
        /\ Len(rooms[c].match.rows) >= 2
        /\ \E i \in 1..Len(rooms[c].teams) : rooms[c].teams[i].score > 0

\* C10: when the match log of a room has rows, the last row holds, for every
\* team of the room, a score equal to the team's running score.
C10_LastRowHoldsScores ==
    \A c \in DOMAIN rooms :
        LET rows == rooms[c].match.rows
        IN  rows # <<>> =>
              \A i \in 1..Len(rooms[c].teams) :
                  LET id == rooms[c].teams[i].id
                  IN  /\ id \in DOMAIN rows[Len(rows)].teams
                      /\ rows[Len(rows)].teams[id].score = rooms[c].teams[i].score

\* C10 witness: a team scored a toss-up and bonus points in the current row
C10_Witness ==
    \E c \in DOMAIN rooms :
        LET rows == rooms[c].match.rows
        IN  /\ rows # <<>>
            /\ \E id \in DOMAIN rows[Len(rows)].teams :
                  /\ rows[Len(rows)].teams[id].tu > 0
                  /\ rows[Len(rows)].teams[id].b > 0

\* remainingMs of the snapshot of room c's timer, read now
SnapshotRemaining(c) == computeTimerSnapshot(rooms[c]).remainingMs

\* the full duration, in ms, of the mode of a timer of a room
FullMs(room, t) ==
    1000 * (IF t.mode = "tossup" THEN room.settings.tossupSeconds
                                 ELSE room.settings.bonusSeconds)

\* the timer t2 is as a reset (setTimer) at the instant `at` leaves it
IsReset(room, t2, at) ==
    /\ t2.remainingMs = FullMs(room, t2)
    /\ t2.endsAtMs = IF t2.running THEN at + t2.remainingMs ELSE 0

\* the timer t2 is t, stopped at the instant `at`
IsStopOf(t, t2, at) ==
    /\ t.running
    /\ t2 = [t EXCEPT !.running = FALSE, !.endsAtMs = 0,
                      !.remainingMs = Max(0, t.endsAtMs - at)]

\* C11: the snapshot's remainingMs is never negative; over a step that leaves
\* the stored timer of a room as it is (no reset, no stop) it does not
\* increase, and it keeps its value when the timer is stopped; and the stored
\* timer changes only by a reset or, when running, by being stopped with
\* remainingMs = max(0, endsAtMs - now).
C11_TimerMonotone ==
    /\ [](\A c \in DOMAIN rooms : SnapshotRemaining(c) >= 0)
    /\ [][\A c \in DOMAIN rooms \cap DOMAIN rooms' :
            created' = created =>
              LET t == rooms[c].timer
                  t2 == rooms'[c].timer
              IN  /\ t2 = t => SnapshotRemaining(c)' <= SnapshotRemaining(c)
                  /\ (t2 = t /\ ~t.running) =>
                        SnapshotRemaining(c)' = t.remainingMs
                  /\ t2 # t => IsReset(rooms[c], t2, now) \/ IsStopOf(t, t2, now)]_vars

\* C12 as stated: a stored timer that is running has its deadline now or
\* ahead; one that is not has no deadline and 0 <= remainingMs <= the full
\* duration of its mode.
C12_RunningDeadlineAhead ==
    \A c \in DOMAIN rooms :
        LET t == rooms[c].timer
        IN  IF t.running
            THEN t.endsAtMs >= now
            ELSE /\ t.endsAtMs = 0
                 /\ 0 <= t.remainingMs
                 /\ t.remainingMs <= FullMs(rooms[c], t)

\* C12, amended: a stored timer that is running holds the deadline its reset
\* gave it, a full duration after an instant not later than now, which may be
\* past (the snapshot then reports it stopped at 0), and its remainingMs is
\* the full duration; one that is not running has no deadline and
\* 0 <= remainingMs <= the full duration of its mode.
C12_TimerState ==
    \A c \in DOMAIN rooms :
        LET t == rooms[c].timer
            full == FullMs(rooms[c], t)
            snap == computeTimerSnapshot(rooms[c])
        IN  IF t.running
            THEN /\ t.endsAtMs >= full
                 /\ t.endsAtMs <= now + full
                 /\ t.remainingMs = full
                 /\ snap.running <=> t.endsAtMs > now
                 /\ snap.remainingMs = Max(0, t.endsAtMs - now)
            ELSE /\ t.endsAtMs = 0
                 /\ 0 <= t.remainingMs
                 /\ t.remainingMs <= full
                 /\ ~snap.running
                 /\ snap.remainingMs = t.remainingMs

\* C12 witness: a stored timer still flagged running after its deadline
C12_Witness ==
    \E c \in DOMAIN rooms :
        /\ rooms[c].timer.running
        /\ rooms[c].timer.endsAtMs < now

\* the host's mark-answer can be accepted in room c: locked and classified
CanMark(c) ==
    /\ rooms[c].buzz.locked
    /\ rooms[c].buzz.interruptChoice # Null

\* every team of `room` other than those in `ids` has the same score in r2
OtherScoresKept(room, r2, ids) ==
    /\ TeamKeys(r2) = TeamKeys(room)
    /\ \A i \in 1..Len(room.teams) :
          room.teams[i].id \notin ids => r2.teams[i].score = room.teams[i].score

\* r2's match log is room's with `points` added to `field` of team id in the
\* last row (and the scores of that row refreshed), nothing else
RowCredited(room, r2, id, field, points) ==
    LET rows == room.match.rows
        n == Len(rows)
    IN  /\ n > 0
        /\ r2.match.tossupNumber = room.match.tossupNumber
        /\ Len(r2.match.rows) = n
        /\ \A i \in 1..(n - 1) : r2.match.rows[i] = rows[i]
        /\ r2.match.rows[n].num = rows[n].num
        /\ DOMAIN r2.match.rows[n].teams = DOMAIN rows[n].teams
        /\ \A t \in DOMAIN rows[n].teams :
              \A f \in {"p", "tu", "b"} :
                  r2.match.rows[n].teams[t][f] =
                      rows[n].teams[t][f] + (IF t = id /\ f = field THEN points ELSE 0)

\* no callback armed for room (the one it held is gone), none held by r2
CallbackCanceled(room, r2, touts) ==
    /\ r2.tossupEndTimeout = NoHandle
    /\ \A t \in touts : t.handle # room.tossupEndTimeout

\* the timer as resetTimerFull(mode, running = false) leaves it
PausedFull(r2, mode) ==
    r2.timer = [mode |-> mode, running |-> FALSE, endsAtMs |-> 0,
                remainingMs |-> FullMs(r2, [mode |-> mode])]

\* what C13 states of the room r2 that mark-answer(correct) leaves of room c,
\* but for the match log
MarkedCorrect(c, res) ==
    LET room == rooms[c]
        r2 == res.rooms[c]
        w == room.buzz.winnerTeamId
    IN  /\ TeamScore(r2, w) = TeamScore(room, w) + 4
        /\ OtherScoresKept(room, r2, {w})
        /\ CallbackCanceled(room, r2, res.timeouts)
        /\ r2.buzz = [locked |-> FALSE]
        /\ PausedFull(r2, "bonus")
        /\ r2.phase = "bonus_reading"
        /\ r2.activeBonusTeamId = w

\* C13 as stated: the host's mark-answer(correct), sent when the buzz is
\* locked and classified, adds 4 to the winning team's score and to its tu
\* delta in the current row, changes no other score, cancels the pending
\* callback, clears the buzz, resets the timer to bonusSeconds paused and
\* enters bonus_reading with the winning team as active bonus team.
C13_MarkCorrect ==
    \A c \in DOMAIN rooms :
        CanMark(c) =>
            LET res == OnHostMarkAnswer(rooms[c].hostSocketId, c, TRUE)
            IN  /\ MarkedCorrect(c, res)
                /\ RowCredited(rooms[c], res.rooms[c],
                               rooms[c].buzz.winnerTeamId, "tu", 4)

\* What holds of mark-answer(correct): as stated where the match log has a
\* row; where it has none the 4 points are recorded in no row.
MarkCorrectWithRow ==
    \A c \in DOMAIN rooms :
        CanMark(c) =>
            LET res == OnHostMarkAnswer(rooms[c].hostSocketId, c, TRUE)
            IN  /\ MarkedCorrect(c, res)
                /\ IF rooms[c].match.rows # <<>>
                   THEN RowCredited(rooms[c], res.rooms[c],
                                    rooms[c].buzz.winnerTeamId, "tu", 4)
                   ELSE res.rooms[c].match = rooms[c].match

\* the team that a wrong interrupt of team w credits: the first other team
CreditedTeam(room, w) == otherTeamId(room, w)

\* what C14 states of the room r2 that mark-answer(incorrect) leaves of room c
\* whose buzz is classified as an interrupt, but for the match log
MarkedInterrupt(c, res) ==
    LET room == rooms[c]
        r2 == res.rooms[c]
        w == room.buzz.winnerTeamId
        o == CreditedTeam(room, w)
    IN  /\ r2.tossupLockedTeams = room.tossupLockedTeams \cup {w}
        /\ TeamScore(r2, w) = TeamScore(room, w)
        /\ o # Null /\ o # w /\ HasTeam(room, o)
        /\ TeamScore(r2, o) = TeamScore(room, o) + 4
        /\ OtherScoresKept(room, r2, {o})
        /\ r2.buzz = [locked |-> FALSE]
        /\ CallbackCanceled(room, r2, res.timeouts)
        /\ r2.phase = "tossup_reading"
        /\ PausedFull(r2, "tossup")
        /\ r2.activeBonusTeamId = room.activeBonusTeamId

\* C14 as stated: the host's mark-answer(incorrect), sent when the buzz is
\* locked and classified as an interrupt, adds the buzzing team to
\* tossupLockedTeams and keeps its score, adds 4 to the score of exactly one
\* other team and to that team's p delta in the current row, clears the buzz,
\* cancels the pending callback and enters tossup_reading with the timer reset
\* to tossupSeconds paused.
C14_MarkInterrupt ==
    \A c \in DOMAIN rooms :
        (CanMark(c) /\ rooms[c].buzz.interruptChoice = "true") =>
            LET res == OnHostMarkAnswer(rooms[c].hostSocketId, c, FALSE)
            IN  /\ MarkedInterrupt(c, res)
                /\ RowCredited(rooms[c], res.rooms[c],
                               CreditedTeam(rooms[c], rooms[c].buzz.winnerTeamId),
                               "p", 4)

\* What holds of mark-answer(incorrect) on an interrupt: as stated where the
\* match log has a row; where it has none the 4 points are recorded in no row.
MarkInterruptWithRow ==
    \A c \in DOMAIN rooms :
        (CanMark(c) /\ rooms[c].buzz.interruptChoice = "true") =>
            LET res == OnHostMarkAnswer(rooms[c].hostSocketId, c, FALSE)
            IN  /\ MarkedInterrupt(c, res)
                /\ IF rooms[c].match.rows # <<>>
                   THEN RowCredited(rooms[c], res.rooms[c],
                                    CreditedTeam(rooms[c], rooms[c].buzz.winnerTeamId),
                                    "p", 4)
                   ELSE res.rooms[c].match = rooms[c].match

\* a locked buzz classified as an interrupt, in a room whose match log has a row
MarkInterruptReached ==
    \E c \in DOMAIN rooms :
        /\ CanMark(c) /\ rooms[c].buzz.interruptChoice = "true"
        /\ rooms[c].match.rows # <<>>

\* what C15 states of the room r2 that mark-answer(incorrect) leaves of room c
\* whose buzz is classified as not an interrupt
MarkedWrong(c, res) ==
    LET room == rooms[c]
        r2 == res.rooms[c]
        w == room.buzz.winnerTeamId
        own == { t \in res.timeouts : t.code = c /\ t.host = room.hostSocketId }
    IN  /\ r2.tossupLockedTeams = room.tossupLockedTeams \cup {w}
        /\ OtherScoresKept(room, r2, {})
        /\ r2.match = room.match
        /\ r2.buzz = [locked |-> FALSE]
        /\ r2.phase = "tossup_live"
        /\ r2.timer = [mode |-> "tossup", running |-> TRUE,
                       endsAtMs |-> now + FullMs(r2, [mode |-> "tossup"]),
                       remainingMs |-> FullMs(r2, [mode |-> "tossup"])]
        /\ r2.activeBonusTeamId = room.activeBonusTeamId
        \* the callback that was pending is gone and one new one is pending
        /\ \A t \in res.timeouts : t.handle # room.tossupEndTimeout
        /\ r2.tossupEndTimeout # NoHandle
        /\ \E t \in own :
              /\ own = {t}
              /\ t.handle = r2.tossupEndTimeout
              /\ t \notin timeouts
              /\ t.due = now + FullMs(r2, [mode |-> "tossup"]) + END_MARGIN_MS

\* C15: the host's mark-answer(incorrect), sent when the buzz is locked and
\* classified as not an interrupt, locks the buzzing team out, changes no
\* score and no match log delta, clears the buzz, enters tossup_live with the
\* timer reset to the full tossupSeconds and running, and leaves exactly one
\* pending callback of the room, newly scheduled, whether the buzz was taken
\* in tossup_reading or in tossup_live.
C15_MarkWrong ==
    \A c \in DOMAIN rooms :
        (CanMark(c) /\ rooms[c].buzz.interruptChoice = "false") =>
            MarkedWrong(c, OnHostMarkAnswer(rooms[c].hostSocketId, c, FALSE))

\* a buzz taken in tossup_reading and one taken in tossup_live, both classified
\* as not an interrupt
MarkWrongReached ==
    \E c \in DOMAIN rooms :
        /\ CanMark(c) /\ rooms[c].buzz.interruptChoice = "false"
        /\ rooms[c].phase = "tossup_reading"
        /\ rooms[c].match.rows # <<>>

\* points that award-bonus takes, as sent: the ends of the range and one inside
AwardProbes == { <<0>>, <<3>>, <<MAX_BONUS_POINTS>> }

InBonus(c) ==
    /\ rooms[c].phase \in {"bonus_reading", "bonus_live"}
    /\ rooms[c].activeBonusTeamId # Null

\* what C16 states of the room r2 that award-bonus(points) leaves of room c,
\* but for the match log
Awarded(c, pts, res) ==
    LET room == rooms[c]
        r2 == res.rooms[c]
        a == room.activeBonusTeamId
    IN  /\ TeamScore(r2, a) = TeamScore(room, a) + pts[1]
        /\ OtherScoresKept(room, r2, {a})
        /\ r2.activeBonusTeamId = Null
        /\ r2.buzz = [locked |-> FALSE]
        /\ r2.tossupLockedTeams = {}
        /\ PausedFull(r2, "tossup")
        /\ r2.phase = "lobby"
        /\ res.timeouts = timeouts

\* C16 as stated: the host's award-bonus with points in 0..20, sent in
\* bonus_reading or bonus_live, adds the points to the active bonus team's
\* score and to its b delta in the current row, changes no other score, sets
\* activeBonusTeamId to null, clears the buzz and the lockouts, resets the
\* timer to tossupSeconds paused and enters lobby.
C16_AwardBonus ==
    \A c \in DOMAIN rooms : \A pts \in AwardProbes :
        InBonus(c) =>
            LET res == OnHostAwardBonus(rooms[c].hostSocketId, c, pts)
            IN  /\ Awarded(c, pts, res)
                /\ RowCredited(rooms[c], res.rooms[c],
                               rooms[c].activeBonusTeamId, "b", pts[1])

\* What holds of award-bonus: as stated where the match log has a row; where
\* it has none the points are recorded in no row.
AwardBonusWithRow ==
    \A c \in DOMAIN rooms : \A pts \in AwardProbes :
        InBonus(c) =>
            LET res == OnHostAwardBonus(rooms[c].hostSocketId, c, pts)
            IN  /\ Awarded(c, pts, res)
                /\ IF rooms[c].match.rows # <<>>
                   THEN RowCredited(rooms[c], res.rooms[c],
                                    rooms[c].activeBonusTeamId, "b", pts[1])
                   ELSE res.rooms[c].match = rooms[c].match

\* a bonus in bonus_live in a room whose match log has a row
AwardBonusReached ==
    \E c \in DOMAIN rooms :
        /\ InBonus(c) /\ rooms[c].phase = "bonus_live"
        /\ rooms[c].match.rows # <<>>

\* numTeams as a client may send it, in tenths: no number, negative, zero,
\* below and above a half, the ends of the range and beyond
NumTeamsProbes ==
    { NaN, <<-30>>, <<0>>, <<14>>, <<15>>, <<26>>, <<84>>, <<86>>, <<990>> }
        \cup NumTeamsInputs

\* k is n (in tenths) rounded to an integer
RoundsTo(tenths, k) == 10 * k - 5 <= tenths /\ tenths <= 10 * k + 5

\* k is clamp(round(n), 2, 8), and 2 for an n that is no finite number
ClampedCount(n, k) ==
    IF n = NaN THEN k = 2
    ELSE \E m \in -100..100 :
            /\ RoundsTo(n[1], m)
            /\ k = IF m < 2 THEN 2 ELSE IF m > 8 THEN 8 ELSE m

\* the room is in the state C17 states of a new room, with k teams
FreshRoom(room, k) ==
    /\ Len(room.teams) = k
    /\ \A i \in 1..k :
          /\ room.teams[i].name = <<"T", "e", "a", "m", " ">> \o <<Letters[i]>>
          /\ room.teams[i].score = 0
    /\ \A i, j \in 1..k : room.teams[i].id = room.teams[j].id => i = j
    /\ room.phase = "lobby"
    /\ room.buzz = [locked |-> FALSE]
    /\ room.tossupLockedTeams = {}
    /\ room.activeBonusTeamId = Null
    /\ room.match.rows = <<>>
    /\ room.match.tossupNumber = 0
    /\ room.tossupEndTimeout = NoHandle
    /\ room.timer.mode = "tossup"
    /\ ~room.timer.running
    /\ room.timer.remainingMs = 5000
    /\ computeTimerSnapshot(room) =
          [mode |-> "tossup", running |-> FALSE, remainingMs |-> 5000,
           endsAtMs |-> 0]

\* C17: create_room with numTeams n makes a room with clamp(round(n), 2, 8)
\* teams (2 when n is no finite number) named Team A, Team B, ... with score
\* 0, in phase lobby, with the buzz unlocked, no team locked out,
\* activeBonusTeamId null, an empty match log and a paused toss-up timer with
\* remainingMs 5000; and every room that a create_room step registers is in
\* that state.
C17_CreateRoom ==
    /\ [](\A s \in Core.creators \ closed : \A code \in Core.genCodes :
            \A n \in NumTeamsProbes :
                LET res == OnCreateRoom(s, code, <<>>, <<>>, n)
                IN  /\ code \in DOMAIN res.rooms
                    /\ res.rooms[code].hostSocketId = s
                    /\ \E k \in 2..8 :
                          /\ ClampedCount(n, k)
                          /\ FreshRoom(res.rooms[code], k))
    /\ [][created' = created + 1 =>
            \E code \in DOMAIN rooms' : \E n \in NumTeamsInputs : \E k \in 2..8 :
                /\ ClampedCount(n, k)
                /\ FreshRoom(rooms'[code], k)]_vars

\* a room as create_room made it of numTeams 2.5: three teams
C17_Witness ==
    \E code \in DOMAIN rooms :
        /\ created = 1
        /\ FreshRoom(rooms[code], 3)
        /\ DOMAIN rooms[code].players = {rooms[code].hostSocketId}

\* C18: in every room activeBonusTeamId is non-null exactly when the phase is
\* bonus_reading or bonus_live, and then it is the id of a team of the room.
C18_BonusTeamIffBonusPhase ==
    \A c \in DOMAIN rooms :
        LET room == rooms[c]
        IN  /\ room.activeBonusTeamId # Null
                <=> room.phase \in {"bonus_reading", "bonus_live"}
            /\ room.activeBonusTeamId # Null => HasTeam(room, room.activeBonusTeamId)

\* a bonus was played and the room is back in lobby with a toss-up of its own
\* in the match log: the active bonus team was set and cleared again
C18_Witness ==
    \E c \in DOMAIN rooms :
        /\ rooms[c].phase = "lobby"
        /\ rooms[c].activeBonusTeamId = Null
        /\ rooms[c].match.rows # <<>>
        /\ \E t \in DOMAIN rooms[c].match.rows[1].teams :
              rooms[c].match.rows[1].teams[t].tu > 0

\* the roles that a player entry claims
Roles(p) ==
    (IF p.isHost THEN {"host"} ELSE {})
        \cup (IF p.isSpectator THEN {"spectator"} ELSE {})
        \cup (IF p.teamId # Null THEN {"member"} ELSE {})

\* every player of the room has exactly one role, and the player flagged
\* isHost is the connection that hostSocketId names
PlayersWellFormed(room) ==
    /\ \A s \in DOMAIN room.players :
          /\ Cardinality(Roles(room.players[s])) = 1
          /\ room.players[s].isHost <=> s = room.hostSocketId
          /\ room.players[s].teamId # Null => HasTeam(room, room.players[s].teamId)
    /\ room.hostSocketId \in DOMAIN room.players

\* what clients send with join_room: a team, another team, spectate
JoinProbes == { <<"T1", FALSE>>, <<"T2", FALSE>>, <<Null, TRUE>>, <<Null, FALSE>> }

\* C19: in every room each player is exactly one of host, spectator or team
\* member and the player flagged isHost is exactly the connection named by
\* hostSocketId; a join_room keeps this, whoever sends it (the host too) and
\* however often.
C19_OneRoleAndOneHost ==
    \A c \in DOMAIN rooms :
        /\ PlayersWellFormed(rooms[c])
        /\ \A s \in Sockets \ closed : \A j \in JoinProbes :
              LET res == OnJoinRoom(s, c, <<>>, j[1], j[2])
              IN  PlayersWellFormed(res.rooms[c])

\* What holds: the same, for join_room sent by any connection but the host.
OneRoleUnlessHostJoins ==
    \A c \in DOMAIN rooms :
        /\ PlayersWellFormed(rooms[c])
        /\ \A s \in (Sockets \ closed) \ {rooms[c].hostSocketId} : \A j \in JoinProbes :
              LET res == OnJoinRoom(s, c, <<>>, j[1], j[2])
              IN  PlayersWellFormed(res.rooms[c])

\* C20: a connection's team assignment is fixed when it joins: while it
\* remains a player of the room, its teamId and its spectator flag do not
\* change.
C20_TeamFixedAtJoin ==
    [][\A c \in DOMAIN rooms \cap DOMAIN rooms' :
          created' = created =>
            \A s \in DOMAIN rooms[c].players \cap DOMAIN rooms'[c].players :
                /\ rooms'[c].players[s].teamId = rooms[c].players[s].teamId
                /\ rooms'[c].players[s].isSpectator = rooms[c].players[s].isSpectator]_vars

\* What holds: every step but a join_room of the connection itself keeps its
\* teamId and spectator flag; set_team changes nothing.
TeamFixedUnlessRejoined ==
    /\ [](\A s \in Sockets : NoEffect(OnSetTeam(s)))
    /\ [][\A c \in DOMAIN rooms \cap DOMAIN rooms' :
            created' = created =>
              \A s \in DOMAIN rooms[c].players \cap DOMAIN rooms'[c].players :
                  \/ /\ rooms'[c].players[s].teamId = rooms[c].players[s].teamId
                     /\ rooms'[c].players[s].isSpectator = rooms[c].players[s].isSpectator
                  \/ \E j \in JoinProbes :
                        rooms' = OnJoinRoom(s, c, <<>>, j[1], j[2]).rooms]_vars

\* the callbacks that will look up room y when they fire
CallbacksOf(touts, y) == { t \in touts : t.code = y }

\* res leaves room y, and the callbacks pending for it, as they are
LeavesRoom(res, y) ==
    /\ y \in DOMAIN res.rooms
    /\ res.rooms[y] = rooms[y]
    /\ CallbacksOf(res.timeouts, y) = CallbacksOf(timeouts, y)

\* every command that carries a room code, sent by socket s for room x
CommandsFor(s, x) ==
    << OnHostSetRoomName(s, x, <<"Z">>),
      OnHostSetTeamName(s, x, "T1", <<"Z">>),
      OnJoinRoom(s, x, <<>>, "T1", FALSE),
      OnJoinRoom(s, x, <<>>, Null, TRUE),
      OnHostStartTossupReading(s, x),
      OnHostDoneReadingTossup(s, x),
      OnBuzz(s, x),
      OnHostClearBuzz(s, x),
      OnHostSetInterruptChoice(s, x, "true"),
      OnHostSetInterruptChoice(s, x, "false"),
      OnHostMarkAnswer(s, x, TRUE),
      OnHostMarkAnswer(s, x, FALSE),
      OnHostDoneReadingBonus(s, x),
      OnHostAwardBonus(s, x, <<3>>),
      OnHostSkipBonus(s, x) >>

\* C21: for two distinct live rooms X and Y, every command whose room code is
\* X, whoever sends it, and every callback scheduled for X leave the whole of
\* room Y (phase, buzz, timer, lockouts, teams, players, match log) and the
\* callbacks pending for Y unchanged.
C21_RoomsIndependent ==
    \A x, y \in DOMAIN rooms :
        x # y =>
            /\ \A s \in Open :
                  LET cmds == CommandsFor(s, x)
                  IN  \A i \in 1..Len(cmds) : LeavesRoom(cmds[i], y)
            /\ \A t \in CallbacksOf(timeouts, x) :
                  LeavesRoom(OnTossupEndTimeout(t), y)

\* two rooms are live, one of them in a live toss-up whose callback is due,
\* with a player on a team
C21_Witness ==
    /\ DOMAIN rooms = {CodeA, CodeB}
    /\ rooms[CodeA].phase = "tossup_live"
    /\ \E t \in CallbacksOf(timeouts, CodeA) : now >= t.due
    /\ \E s \in DOMAIN rooms[CodeA].players : rooms[CodeA].players[s].teamId # Null

\* the callbacks of room c that are armed: not yet fired, not canceled
Armed(c) == CallbacksOf(timeouts, c)

\* res leaves at most one callback armed for room c: the one c holds
OneArmedIn(res, c) ==
    /\ Cardinality(CallbacksOf(res.timeouts, c)) <= 1
    /\ \A t \in CallbacksOf(res.timeouts, c) :
          c \in DOMAIN res.rooms /\ t.handle = res.rooms[c].tossupEndTimeout

\* C22: at any time at most one toss-up-end callback is armed per room, and it
\* is the one the room holds the handle of, which is the one scheduled last:
\* a step that schedules a callback leaves no other one armed for the room, a
\* callback that was canceled is armed no more and so cannot fire, and what
\* fires is the callback scheduled last - whatever the interleaving of
\* done-reading-tossup, buzz, clear-buzz, mark-answer, start-tossup-reading
\* and disconnect.
C22_OneArmedCallback ==
    /\ [](/\ \A t \in timeouts : t.code \in DOMAIN rooms
          /\ \A c \in DOMAIN rooms :
                /\ Cardinality(Armed(c)) <= 1
                /\ \A t \in Armed(c) : t.handle = rooms[c].tossupEndTimeout
                \* and so it stays, whatever comes next
                /\ \A s \in Open :
                      /\ LET cmds == CommandsFor(s, c)
                         IN  \A i \in 1..Len(cmds) : OneArmedIn(cmds[i], c)
                      /\ OneArmedIn(OnDisconnect(s), c)
                /\ \A t \in Armed(c) : OneArmedIn(OnTossupEndTimeout(t), c))
    /\ [][/\ \A t \in timeouts' \ timeouts :
                /\ t.code \in DOMAIN rooms'
                /\ CallbacksOf(timeouts', t.code) = {t}
                /\ rooms'[t.code].tossupEndTimeout = t.handle
          /\ \A t \in timeouts \ timeouts' :
                \* it fired, or the room canceled it and holds it no more
                \/ /\ now >= t.due
                   /\ rooms' = OnTossupEndTimeout(t).rooms
                   /\ timeouts' = timeouts \ {t}
                \/ /\ t.code \in DOMAIN rooms' =>
                         rooms'[t.code].tossupEndTimeout # t.handle
                            \/ t \notin timeouts']_vars

\* a callback was canceled by a buzz and the next one, scheduled by
\* mark-answer, is armed
C22_Witness ==
    \E c \in DOMAIN rooms :
        /\ rooms[c].phase = "tossup_live"
        /\ hist[c].lockedOut # {}
        /\ Armed(c) # {}

\* the snapshots that res sends to the subscribers of room c
StatesSent(res, c) ==
    { i \in 1..Len(res.out) : res.out[i].event = "state" /\ res.out[i].to = c }

\* if res changed room c, it sent one snapshot to the room: the complete
\* projection of the room as res leaves it
MutationBroadcast(res, c) ==
    (c \in DOMAIN res.rooms /\ (c \notin DOMAIN rooms \/ res.rooms[c] # rooms[c])) =>
        /\ Cardinality(StatesSent(res, c)) = 1
        /\ \A i \in StatesSent(res, c) :
              res.out[i].data = publicState(res.rooms[c])

\* the fields of a room, but for the handle of its callback, are those of its
\* snapshot; the timer is sent as computeTimerSnapshot reads it
CompleteProjection(room) ==
    LET st == publicState(room)
    IN  /\ DOMAIN room \ {"tossupEndTimeout"} = DOMAIN st
        /\ \A f \in DOMAIN st \ {"timer"} : st[f] = room[f]
        /\ st.timer = computeTimerSnapshot(room)

\* C23: every command and every firing of an end-callback that changes a
\* room's state sends, in the same step, one broadcast to the room whose
\* content is the complete projection of the room's state after the change.
C23_BroadcastAfterMutation ==
    /\ \A c \in DOMAIN rooms : CompleteProjection(rooms[c])
    /\ \A c \in DOMAIN rooms \cup Core.genCodes :
          /\ \A s \in Open :
                /\ LET cmds == CommandsFor(s, c)
                   IN  \A i \in 1..Len(cmds) : MutationBroadcast(cmds[i], c)
                /\ MutationBroadcast(OnCreateRoom(s, c, <<>>, <<>>, <<25>>), c)
                /\ MutationBroadcast(OnDisconnect(s), c)
          /\ \A t \in timeouts : MutationBroadcast(OnTossupEndTimeout(t), c)

\* a callback is due that will close the toss-up of a room with a player
C23_Witness ==
    \E t \in timeouts :
        /\ now >= t.due
        /\ HasRoom(t.code)
        /\ TossupEnded(rooms[t.code])
        /\ Cardinality(DOMAIN rooms[t.code].players) > 1
        /\ OnTossupEndTimeout(t).rooms # rooms

\* seq without its i-th element
Without(seq, i) == [j \in 1..(Len(seq) - 1) |-> IF j < i THEN seq[j] ELSE seq[j + 1]]

\* C24: the host's delete-ledger-row(num) removes exactly the row with that
\* num from the match log and changes nothing else: the other rows, every
\* team's score, the phase, the buzz and the timer stay as they are.
C24_DeleteRow ==
    \A c \in DOMAIN rooms :
        \A i \in 1..Len(rooms[c].match.rows) :
            LET room == rooms[c]
                res == OnHostDeleteTossupRow(room.hostSocketId, c,
                                             room.match.rows[i].num)
            IN  /\ c \in DOMAIN res.rooms
                /\ res.rooms[c].match.rows = Without(room.match.rows, i)
                /\ res.rooms[c] =
                      [room EXCEPT !.match.rows = Without(room.match.rows, i)]

\* room c is in bonus_reading or bonus_live
BonusPhase(c) == rooms[c].phase \in {"bonus_reading", "bonus_live"}

\* the host's commands that can move room c on
HostMoves(c) ==
    LET h == rooms[c].hostSocketId
    IN  << OnHostStartTossupReading(h, c), OnHostDoneReadingTossup(h, c),
           OnHostSkipBonus(h, c) >>

\* res is accepted for room c: the room is changed and broadcast
Accepted(res, c) ==
    /\ c \in DOMAIN res.rooms
    /\ res.rooms[c] # rooms[c]
    /\ StatesSent(res, c) # {}

\* a bonus phase is left for lobby only, and by award-bonus or skip-bonus
\* only: no other command, no callback and no non-host disconnect leaves it
\* (a create_room step makes a new room and is not a step of this one)
BonusResolvesIntoLobby ==
    /\ [](\A c \in DOMAIN rooms :
            BonusPhase(c) =>
                LET h == rooms[c].hostSocketId
                IN  /\ OnHostSkipBonus(h, c).rooms[c].phase = "lobby"
                    /\ \A pts \in AwardProbes :
                          OnHostAwardBonus(h, c, pts).rooms[c].phase = "lobby"
                    /\ \A s \in Open :
                          LET cmds == CommandsFor(s, c)
                          IN  \A i \in 1..Len(cmds) :
                                 cmds[i].rooms[c].phase \in
                                     {rooms[c].phase, "bonus_live", "lobby"}
                    /\ \A t \in timeouts :
                          OnTossupEndTimeout(t).rooms[c].phase = rooms[c].phase)
    /\ [][\A c \in DOMAIN rooms :
            (BonusPhase(c) /\ created' = created) =>
                \/ c \in DOMAIN rooms' /\ rooms'[c].phase = rooms[c].phase
                \/ c \in DOMAIN rooms' /\ rooms'[c].phase = "bonus_live"
                \/ /\ c \in DOMAIN rooms' /\ rooms'[c].phase = "lobby"
                   /\ \/ rooms' = OnHostSkipBonus(rooms[c].hostSocketId, c).rooms
                      \/ \E pts \in PointsInputs :
                            rooms' = OnHostAwardBonus(rooms[c].hostSocketId, c, pts).rooms
                \/ /\ c \notin DOMAIN rooms'
                   /\ rooms[c].hostSocketId \in closed' \ closed]_vars

\* C25 as stated: in every state of a live room the host's
\* start-tossup-reading (in a non-bonus phase) or skip-bonus (in a bonus
\* phase) is accepted and changes the phase, and every bonus round resolves
\* into lobby.
C25_NoTerminalState ==
    /\ [](\A c \in DOMAIN rooms :
            LET h == rooms[c].hostSocketId
                res == IF BonusPhase(c) THEN OnHostSkipBonus(h, c)
                       ELSE OnHostStartTossupReading(h, c)
            IN  h \in Open =>
                    Accepted(res, c) /\ res.rooms[c].phase # rooms[c].phase)
    /\ BonusResolvesIntoLobby

\* C25 as amended: in every state of a live room some host command is accepted
\* and changes the phase; start-tossup-reading is accepted in every non-bonus
\* phase and leads to tossup_reading (from tossup_reading the phase stays and
\* done-reading-tossup is the command that changes it), skip-bonus is accepted
\* in every bonus phase and leads to lobby; every bonus round resolves into
\* lobby.
C25_AlwaysAWayOn ==
    /\ [](\A c \in DOMAIN rooms :
            LET h == rooms[c].hostSocketId
                moves == HostMoves(c)
            IN  h \in Open =>
                    /\ \E i \in 1..Len(moves) :
                          /\ Accepted(moves[i], c)
                          /\ moves[i].rooms[c].phase # rooms[c].phase
                    /\ IF BonusPhase(c)
                       THEN /\ Accepted(moves[3], c)
                            /\ moves[3].rooms[c].phase = "lobby"
                       ELSE /\ Accepted(moves[1], c)
                            /\ moves[1].rooms[c].phase = "tossup_reading"
                            /\ rooms[c].phase = "tossup_reading" =>
                                  /\ Accepted(moves[2], c)
                                  /\ moves[2].rooms[c].phase = "tossup_live")
    /\ BonusResolvesIntoLobby

\* a toss-up is being read and a buzz is locked
C25_Witness ==
    \E c \in DOMAIN rooms :
        /\ rooms[c].hostSocketId \in Open
        /\ rooms[c].phase = "tossup_reading"
        /\ rooms[c].buzz.locked

\* C26: the host's done-reading-tossup starts the live clock only in
\* tossup_reading: sent in lobby, tossup_live or tossup_closed it changes
\* nothing, so a room in tossup_live has had a start-tossup-reading, and has
\* its row in the match log, for the current toss-up.
C26_DoneReadingOnlyFromReading ==
    \A c \in DOMAIN rooms :
        /\ rooms[c].phase \in {"lobby", "tossup_live", "tossup_closed"} =>
              NoEffect(OnHostDoneReadingTossup(rooms[c].hostSocketId, c))
        /\ rooms[c].phase = "tossup_live" =>
              /\ hist[c].starts > 0
              /\ rooms[c].match.rows # <<>>

\* What holds: done-reading-tossup is refused in the bonus phases only.
DoneReadingUnlessBonus ==
    \A c \in DOMAIN rooms :
        LET res == OnHostDoneReadingTossup(rooms[c].hostSocketId, c)
        IN  IF BonusPhase(c) THEN NoEffect(res)
            ELSE /\ res.rooms[c].phase = "tossup_live"
                 /\ res.rooms[c].timer.running
                 /\ res.rooms[c].match = rooms[c].match

\* C27: a buzz that is accepted does not change the phase. In tossup_live it
\* leaves the timer stopped with remainingMs the time that remained at the
\* buzz, max(0, endsAtMs - now) of the running clock, and cancels the pending
\* callback; in tossup_reading it leaves the timer and the callbacks as they
\* are. Either way the buzz is locked to the buzzing socket, its name and its
\* team, with interruptChoice null, and nothing else of the room changes.
C27_AcceptedBuzz ==
    \A c \in DOMAIN rooms : \A s \in Open :
        (CouldBuzz(c, s) /\ ~rooms[c].buzz.locked) =>
            LET room == rooms[c]
                res == OnBuzz(s, c)
                r2 == res.rooms[c]
            IN  /\ r2.phase = room.phase
                /\ r2.buzz = [locked |-> TRUE, winnerSocketId |-> s,
                              winnerName |-> room.players[s].name,
                              winnerTeamId |-> room.players[s].teamId,
                              at |-> now, interruptChoice |-> Null]
                /\ IF room.phase = "tossup_live"
                   THEN /\ ~r2.timer.running
                        /\ r2.timer.endsAtMs = 0
                        /\ r2.timer.mode = room.timer.mode
                        /\ r2.timer.remainingMs = SnapshotRemaining(c)
                        /\ room.timer.running =>
                              r2.timer.remainingMs = Max(0, room.timer.endsAtMs - now)
                        /\ CallbackCanceled(room, r2, res.timeouts)
                        /\ res.timeouts \subseteq timeouts
                   ELSE /\ r2.timer = room.timer
                        /\ r2.tossupEndTimeout = room.tossupEndTimeout
                        /\ res.timeouts = timeouts
                /\ r2 = [room EXCEPT !.buzz = r2.buzz, !.timer = r2.timer,
                                     !.tossupEndTimeout = r2.tossupEndTimeout]

\* a buzz stopped a live clock part of the way
C27_Witness ==
    \E c \in DOMAIN rooms :
        /\ rooms[c].phase = "tossup_live"
        /\ rooms[c].buzz.locked
        /\ rooms[c].buzz.at = now
        /\ ~rooms[c].timer.running
        /\ rooms[c].timer.remainingMs > 0
        /\ rooms[c].timer.remainingMs < FullMs(rooms[c], rooms[c].timer)
        /\ Armed(c) = {}

\* clear-buzz left the room's buzz cleared and its phase, lockouts, teams
\* (scores) and match log as they were
BuzzCleared(room, r2) ==
    /\ r2.buzz = [locked |-> FALSE]
    /\ r2.phase = room.phase
    /\ r2.tossupLockedTeams = room.tossupLockedTeams
    /\ r2.teams = room.teams
    /\ r2.match = room.match

\* C28: the host's clear-buzz is accepted only while a buzz is locked: sent
\* while none is locked it changes nothing of the room, does not move the
\* firing time of the pending callback and sends no snapshot; sent while a
\* buzz is locked it clears the buzz and leaves phase, lockouts, scores and
\* match log as they are.
C28_ClearBuzzOnlyWhenLocked ==
    \A c \in DOMAIN rooms :
        LET res == OnHostClearBuzz(rooms[c].hostSocketId, c)
        IN  IF rooms[c].buzz.locked
            THEN BuzzCleared(rooms[c], res.rooms[c])
            ELSE /\ NoEffect(res)
                 /\ {t.due : t \in CallbacksOf(res.timeouts, c)}
                        = {t.due : t \in Armed(c)}

\* What holds: clear-buzz is accepted whether or not a buzz is locked; it
\* always sends a snapshot, and in tossup_live with the clock running it
\* replaces the pending callback by one that fires tossupSeconds and the
\* margin after the command.
ClearBuzzAlways ==
    \A c \in DOMAIN rooms :
        LET room == rooms[c]
            res == OnHostClearBuzz(room.hostSocketId, c)
        IN  /\ BuzzCleared(room, res.rooms[c])
            /\ StatesSent(res, c) # {}
            /\ res.rooms[c].timer = room.timer
            /\ IF room.phase = "tossup_live" /\ room.timer.running
               THEN \E t \in CallbacksOf(res.timeouts, c) :
                       /\ t.handle = res.rooms[c].tossupEndTimeout
                       /\ t.due = now + room.timer.remainingMs + END_MARGIN_MS
               ELSE res.timeouts = timeouts

\* a running toss-up clock part of the way, no buzz locked: clear-buzz would
\* postpone the callback
ClearBuzzPostpones ==
    \E c \in DOMAIN rooms : \E t \in Armed(c) :
        /\ rooms[c].phase = "tossup_live" /\ rooms[c].timer.running
        /\ ~rooms[c].buzz.locked
        /\ t.due = rooms[c].timer.endsAtMs + END_MARGIN_MS
        /\ now > rooms[c].timer.endsAtMs - rooms[c].timer.remainingMs
        /\ now < rooms[c].timer.endsAtMs

\* room c holds an armed callback that will find the clock run out
WillExpire(c) ==
    /\ rooms[c].timer.running
    /\ \E t \in Armed(c) :
          /\ t.handle = rooms[c].tossupEndTimeout
          /\ t.due >= rooms[c].timer.endsAtMs

\* C29: a room in tossup_live with no buzz locked reaches tossup_closed if no
\* further command arrives, time advances and armed callbacks fire: its clock
\* is running and a callback is armed that fires once the clock has run out -
\* also after the host cleared a buzz that was locked during tossup_live
\* while the stopped timer had time remaining. (Stated of rooms whose
\* toss-ups were started by start-tossup-reading.)
C29_LiveTossupExpires ==
    \A c \in DOMAIN rooms :
        (/\ rooms[c].phase = "tossup_live" /\ ~rooms[c].buzz.locked
         /\ hist[c].starts > 0 /\ rooms[c].match.rows # <<>>) => WillExpire(c)

\* What holds: the callback is armed as long as the clock is running; a clock
\* that a buzz stopped stays stopped after clear-buzz, with no callback.
LiveTossupExpiresWhileRunning ==
    \A c \in DOMAIN rooms :
        /\ (rooms[c].phase = "tossup_live" /\ ~rooms[c].buzz.locked
                /\ rooms[c].timer.running) => WillExpire(c)
        /\ (rooms[c].phase = "tossup_live" /\ rooms[c].buzz.locked) =>
              LET res == OnHostClearBuzz(rooms[c].hostSocketId, c)
              IN  /\ ~rooms[c].timer.running => CallbacksOf(res.timeouts, c) = {}
                  /\ res.rooms[c].timer = rooms[c].timer

\* C30: mark-answer, correct or incorrect, sent by the host while no buzz is
\* locked, or while the buzz is locked and interruptChoice is still null,
\* changes no score, lockout, match log field, timer, buzz or phase: it
\* leaves the room and the callbacks as they are and sends no snapshot.
C30_MarkNeedsInterruptChoice ==
    \A c \in DOMAIN rooms :
        ~CanMark(c) =>
            \A correct \in BOOLEAN :
                NoEffect(OnHostMarkAnswer(rooms[c].hostSocketId, c, correct))

\* a buzz is locked in a toss-up that has its row, and the host has not yet
\* said whether it was an interrupt
C30_Witness ==
    \E c \in DOMAIN rooms :
        /\ rooms[c].buzz.locked
        /\ rooms[c].buzz.interruptChoice = Null
        /\ rooms[c].match.rows # <<>>
        /\ rooms[c].hostSocketId \in Open

\* the row that start-tossup-reading appends to the match log of room
SeedRow(room) ==
    [num |-> room.match.tossupNumber + 1,
     teams |-> [id \in {room.teams[i].id : i \in 1..Len(room.teams)} |->
                  [p |-> 0, tu |-> 0, b |-> 0, score |-> TeamScore(room, id)]]]

\* C31: the host's start-tossup-reading, sent in lobby, tossup_reading,
\* tossup_live or tossup_closed, clears the buzz, empties tossupLockedTeams,
\* cancels the room's pending callback, appends to the match log a row with
\* all p/tu/b deltas 0 and each team's score its current score, resets the
\* timer to tossupSeconds paused, leaves the teams and their scores as they
\* are and enters tossup_reading.
C31_StartTossupReading ==
    \A c \in DOMAIN rooms :
        ~BonusPhase(c) =>
            LET room == rooms[c]
                res == OnHostStartTossupReading(room.hostSocketId, c)
                r2 == res.rooms[c]
            IN  /\ r2.buzz = [locked |-> FALSE]
                /\ r2.tossupLockedTeams = {}
                /\ CallbackCanceled(room, r2, res.timeouts)
                /\ res.timeouts \subseteq timeouts
                /\ r2.match.rows = Append(room.match.rows, SeedRow(room))
                /\ r2.match.tossupNumber = room.match.tossupNumber + 1
                /\ PausedFull(r2, "tossup")
                /\ r2.teams = room.teams
                /\ r2.players = room.players
                /\ r2.phase = "tossup_reading"
                /\ r2.activeBonusTeamId = Null

\* a live toss-up with its clock running, a team locked out and some points
\* scored: start-tossup-reading has a callback to cancel and lockouts to clear
C31_Witness ==
    \E c \in DOMAIN rooms :
        /\ rooms[c].phase = "tossup_live"
        /\ rooms[c].tossupLockedTeams # {}
        /\ Armed(c) # {}
        /\ rooms[c].match.rows # <<>>
        /\ \E i \in 1..Len(rooms[c].teams) : rooms[c].teams[i].score > 0

\* C32: the host's done-reading-bonus is accepted only in bonus_reading and
\* bonus_live: there it sets the phase to bonus_live and resets the timer to
\* the full bonusSeconds, running, and leaves activeBonusTeamId, scores, match
\* log, buzz and everything else as they are; in any other phase it changes
\* nothing. The bonus clock reaching zero changes no phase by itself: the
\* passing of time and the firing of callbacks leave a room in a bonus phase
\* as it is.
C32_DoneReadingBonus ==
    /\ [](\A c \in DOMAIN rooms :
            LET room == rooms[c]
                res == OnHostDoneReadingBonus(room.hostSocketId, c)
                full == 1000 * room.settings.bonusSeconds
            IN  /\ IF BonusPhase(c)
                   THEN /\ res.rooms[c] =
                              [room EXCEPT !.phase = "bonus_live",
                                           !.timer = [mode |-> "bonus",
                                                      running |-> TRUE,
                                                      endsAtMs |-> now + full,
                                                      remainingMs |-> full]]
                        /\ res.timeouts = timeouts
                   ELSE NoEffect(res)
                /\ BonusPhase(c) =>
                      \A t \in timeouts : OnTossupEndTimeout(t).rooms = rooms)
    /\ [][\A c \in DOMAIN rooms :
            (BonusPhase(c) /\ now' # now) =>
                c \in DOMAIN rooms' /\ rooms'[c] = rooms[c]]_vars

\* the bonus clock has run out and the room is still in bonus_live
C32_Witness ==
    \E c \in DOMAIN rooms :
        /\ rooms[c].phase = "bonus_live"
        /\ rooms[c].timer.running
        /\ now >= rooms[c].timer.endsAtMs
        /\ computeTimerSnapshot(rooms[c]).remainingMs = 0

\* C33: the host's skip-bonus, sent in bonus_reading or bonus_live, changes no
\* team score and no field of the match log, sets activeBonusTeamId to null,
\* clears the buzz and the lockouts, resets the timer to tossupSeconds paused
\* and enters lobby; nothing else of the room and no callback changes.
C33_SkipBonus ==
    \A c \in DOMAIN rooms :
        BonusPhase(c) =>
            LET room == rooms[c]
                res == OnHostSkipBonus(room.hostSocketId, c)
                r2 == res.rooms[c]
            IN  /\ r2.teams = room.teams
                /\ r2.match = room.match
                /\ r2.activeBonusTeamId = Null
                /\ r2.buzz = [locked |-> FALSE]
                /\ r2.tossupLockedTeams = {}
                /\ PausedFull(r2, "tossup")
                /\ r2.phase = "lobby"
                /\ r2.players = room.players
                /\ r2.tossupEndTimeout = room.tossupEndTimeout
                /\ res.timeouts = timeouts

\* a bonus is under way, won after another team was locked out of the toss-up
C33_Witness ==
    \E c \in DOMAIN rooms :
        /\ BonusPhase(c)
        /\ rooms[c].tossupLockedTeams # {}
        /\ TeamScore(rooms[c], rooms[c].activeBonusTeamId) > 0

\* C34: the buzz lock is only ever held by a team member that is neither the
\* host nor a spectator: in every state with the buzz locked the winner's
\* socket is not hostSocketId, the winner's team is a team of the room and
\* that team is not in tossupLockedTeams.
C34_LockHeldByTeamMember ==
    \A c \in DOMAIN rooms :
        rooms[c].buzz.locked =>
            /\ rooms[c].buzz.winnerSocketId # rooms[c].hostSocketId
            /\ HasTeam(rooms[c], rooms[c].buzz.winnerTeamId)
            /\ rooms[c].buzz.winnerTeamId \notin rooms[c].tossupLockedTeams

\* What holds: the winner's team is a team of the room that is not locked
\* out, and the winner is not the host unless the host has sent join_room.
LockHeldUnlessHostJoined ==
    \A c \in DOMAIN rooms :
        rooms[c].buzz.locked =>
            /\ HasTeam(rooms[c], rooms[c].buzz.winnerTeamId)
            /\ rooms[c].buzz.winnerTeamId \notin rooms[c].tossupLockedTeams
            /\ rooms[c].buzz.winnerSocketId = rooms[c].hostSocketId =>
                  /\ rooms[c].hostSocketId \in DOMAIN rooms[c].players =>
                        ~rooms[c].players[rooms[c].hostSocketId].isHost

\* the ids of the teams whose score differs between room and r2
Rescored(room, r2) ==
    { room.teams[i].id : i \in { j \in 1..Len(room.teams) :
                                    r2.teams[j].score # room.teams[j].score } }

\* every command but mark-answer and award-bonus, sent by socket s for room x
NonScoringCommands(s, x) ==
    << OnHostSetRoomName(s, x, <<"Z">>),
       OnHostSetTeamName(s, x, "T1", <<"Z">>),
       OnJoinRoom(s, x, <<>>, "T1", FALSE),
       OnJoinRoom(s, x, <<>>, Null, TRUE),
       OnSetTeam(s),
       OnHostDeleteTossupRow(s, x, 1),
       OnHostStartTossupReading(s, x),
       OnHostDoneReadingTossup(s, x),
       OnBuzz(s, x),
       OnHostClearBuzz(s, x),
       OnHostSetInterruptChoice(s, x, "true"),
       OnHostSetInterruptChoice(s, x, "false"),
       OnHostDoneReadingBonus(s, x),
       OnHostSkipBonus(s, x) >>

\* res leaves the teams of room c, and their scores, as they are
KeepsScores(res, c) ==
    c \in DOMAIN res.rooms =>
        /\ TeamKeys(res.rooms[c]) = TeamKeys(rooms[c])
        /\ Rescored(rooms[c], res.rooms[c]) = {}

\* C35: team scores never decrease and are never reset. A score changes only
\* in an accepted mark-answer, by +4 for exactly one team, or in an accepted
\* award-bonus, by the points for the active bonus team; every other command,
\* the end-callback, joins and non-host disconnects leave all scores as they
\* are; and the teams of a room, their number and their ids, never change.
C35_ScoresOnlyGrow ==
    /\ [](\A c \in DOMAIN rooms :
            /\ \A s \in Open :
                  /\ LET cmds == NonScoringCommands(s, c)
                     IN  \A i \in 1..Len(cmds) : KeepsScores(cmds[i], c)
                  /\ KeepsScores(OnDisconnect(s), c)
                  /\ \A correct \in BOOLEAN :
                        LET res == OnHostMarkAnswer(s, c, correct)
                            ch == Rescored(rooms[c], res.rooms[c])
                        IN  /\ TeamKeys(res.rooms[c]) = TeamKeys(rooms[c])
                            /\ Cardinality(ch) <= 1
                            /\ \A t \in ch :
                                  /\ s = rooms[c].hostSocketId /\ CanMark(c)
                                  /\ TeamScore(res.rooms[c], t) =
                                        TeamScore(rooms[c], t) + 4
                  /\ \A pts \in AwardProbes :
                        LET res == OnHostAwardBonus(s, c, pts)
                            ch == Rescored(rooms[c], res.rooms[c])
                        IN  /\ TeamKeys(res.rooms[c]) = TeamKeys(rooms[c])
                            /\ ch \subseteq {rooms[c].activeBonusTeamId}
                            /\ \A t \in ch :
                                  /\ s = rooms[c].hostSocketId /\ BonusPhase(c)
                                  /\ TeamScore(res.rooms[c], t) =
                                        TeamScore(rooms[c], t) + pts[1]
            /\ \A t \in timeouts : KeepsScores(OnTossupEndTimeout(t), c))
    /\ [][\A c \in DOMAIN rooms \cap DOMAIN rooms' :
            created' = created =>
                /\ TeamKeys(rooms'[c]) = TeamKeys(rooms[c])
                /\ \A i \in 1..Len(rooms[c].teams) :
                      rooms'[c].teams[i].score >= rooms[c].teams[i].score]_vars

\* a team has scored a toss-up and then bonus points
C35_Witness ==
    \E c \in DOMAIN rooms : \E i \in 1..Len(rooms[c].teams) :
        /\ rooms[c].teams[i].score = 7
        /\ rooms[c].phase = "lobby"

\* the match log r2 keeps every row of log but the last as it is, keeps the
\* number of the last, and is log with at most one row more
KeepsEarlierRows(log, r2) ==
    /\ Len(r2) >= Len(log)
    /\ Len(r2) <= Len(log) + 1
    /\ \A i \in 1..Len(log) :
          /\ r2[i].num = log[i].num
          /\ (i < Len(log) \/ Len(r2) > Len(log)) => r2[i] = log[i]

RECURSIVE RowSum(_, _, _)
\* the sum of the p, tu and b deltas of team id over the first n rows of log
RowSum(log, id, n) ==
    IF n = 0 THEN 0
    ELSE RowSum(log, id, n - 1) +
         (IF id \in DOMAIN log[n].teams
          THEN log[n].teams[id].p + log[n].teams[id].tu + log[n].teams[id].b
          ELSE 0)

Recorded(room, id) == RowSum(room.match.rows, id, Len(room.match.rows))

\* C37: each team's running score equals the sum over all rows of the ledger
\* of its p, tu and b deltas: every point added is recorded in some row.
C37_ScoreIsSumOfRows ==
    \A c \in DOMAIN rooms :
        \A i \in 1..Len(rooms[c].teams) :
            rooms[c].teams[i].score = Recorded(rooms[c], rooms[c].teams[i].id)

\* what holds: a step of a room whose ledger has a row adds to a team's score
\* what it records in the ledger
ScoreIsRecordedWithRow ==
    [][\A c \in DOMAIN rooms \cap DOMAIN rooms' :
        (created' = created /\ rooms[c].match.rows # <<>>) =>
            \A i \in 1..Len(rooms[c].teams) :
                rooms'[c].teams[i].score - rooms[c].teams[i].score =
                    Recorded(rooms'[c], rooms[c].teams[i].id) -
                    Recorded(rooms[c], rooms[c].teams[i].id)]_vars

\* socket s's buzz for room c is accepted: it takes the lock
BuzzAccepted(s, c) ==
    /\ ~rooms[c].buzz.locked
    /\ OnBuzz(s, c).rooms[c].buzz.locked

\* C38: in tossup_live a buzz is never accepted when the remaining time, as
\* computed live from the deadline, is already 0: neither when the deadline
\* has passed within the safety margin of the end-callback nor when a
\* clear-buzz rescheduled the callback later than the deadline.
C38_NoBuzzAfterExpiry ==
    \A c \in DOMAIN rooms :
        (/\ rooms[c].phase = "tossup_live"
         /\ hist[c].starts > 0 /\ rooms[c].match.rows # <<>>
         /\ computeTimerSnapshot(rooms[c]).remainingMs = 0) =>
            \A s \in Open : ~BuzzAccepted(s, c)


\* C39: a locked buzz goes with a toss-up phase and a stopped clock. If the
\* buzz of a room is locked its phase is tossup_reading or tossup_live, and
\* if it is tossup_live its timer is not running and no end-callback is
\* pending for the room.
C39_LockedBuzzCoherent ==
    \A c \in DOMAIN rooms :
        rooms[c].buzz.locked =>
            /\ rooms[c].phase \in {"tossup_reading", "tossup_live"}
            /\ rooms[c].phase = "tossup_live" =>
                  /\ ~rooms[c].timer.running
                  /\ Armed(c) = {}
                  /\ rooms[c].tossupEndTimeout = NoHandle

\* C40: an end-callback is pending for a room only if the room is in
\* tossup_live with its timer running and no buzz locked; and whenever a room
\* is in tossup_live with its timer running and no buzz locked, a callback is
\* pending for it that is due no earlier than the timer's deadline.
C40_CallbackCoherent ==
    \A c \in DOMAIN rooms :
        LET counting == /\ rooms[c].phase = "tossup_live"
                        /\ rooms[c].timer.running
                        /\ ~rooms[c].buzz.locked
        IN  /\ Armed(c) # {} => counting
            /\ counting =>
                  \E t \in Armed(c) :
                      /\ t.handle = rooms[c].tossupEndTimeout
                      /\ t.due >= rooms[c].timer.endsAtMs

====
